---- MODULE Spec2Model ----
(***************************************************************************)
(* Streaming controller of the polargraph web interface (src/src/app.py)   *)
(* and its serial transport (src/src/modules/serial_handler.py).           *)
(*                                                                         *)
(* Two contexts run concurrently: the request context "req", which runs    *)
(* one route handler at a time, and the transport's reader thread "rdr",   *)
(* which runs _read_loop and, through serial_callback, send_next_line.     *)
(* The module globals of app.py are shared between them without a lock;    *)
(* each read or write of a global is one step of the thread doing it.      *)
(* Python strings are sequences of one-character strings.                  *)
(***************************************************************************)
EXTENDS Integers, Sequences, FiniteSets, TLC

\* ------------------------------------------------------------------ bounds
\* longest command list
MaxLines == 2
\* lines the port's input buffer holds
MaxInbox == 1
\* external events of one run: requests and losses of the port
MaxOps == 3

\* ------------------------------------------------------- string functions
Threads == {"req", "rdr"}

Digits == {"0", "1", "2", "3", "4", "5", "6", "7", "8", "9"}

DigitVal(c) ==
    CASE c = "0" -> 0 [] c = "1" -> 1 [] c = "2" -> 2 [] c = "3" -> 3
      [] c = "4" -> 4 [] c = "5" -> 5 [] c = "6" -> 6 [] c = "7" -> 7
      [] c = "8" -> 8 [] OTHER -> 9

IsSpace(c) == c = " "

\* str.strip(): drop the leading and the trailing spaces
Strip(s) ==
    LET kept == {i \in 1..Len(s) : ~IsSpace(s[i])}
    IN  IF kept = {} THEN <<>>
        ELSE SubSeq(s, CHOOSE i \in kept : \A j \in kept : i <= j,
                       CHOOSE i \in kept : \A j \in kept : j <= i)

StartsWith(s, p) == Len(s) >= Len(p) /\ SubSeq(s, 1, Len(p)) = p

LowerChar(c) ==
    CASE c = "O" -> "o" [] c = "K" -> "k" [] c = "T" -> "t" [] c = "X" -> "x"
      [] c = "E" -> "e" [] c = "R" -> "r" [] c = "G" -> "g" [] c = "M" -> "m"
      [] c = "Y" -> "y" [] c = "Z" -> "z" [] c = "F" -> "f" [] c = "P" -> "p"
      [] c = "S" -> "s" [] OTHER -> c

UpperChar(c) ==
    CASE c = "o" -> "O" [] c = "k" -> "K" [] c = "g" -> "G" [] c = "x" -> "X"
      [] c = "y" -> "Y" [] c = "z" -> "Z" [] c = "h" -> "H" [] c = "m" -> "M"
      [] OTHER -> c

Lower(s) == [i \in 1..Len(s) |-> LowerChar(s[i])]

Upper(s) == [i \in 1..Len(s) |-> UpperChar(s[i])]

\* str.split(): the maximal runs of non-space characters, in order.
Split(s) ==
    LET starts == {i \in 1..Len(s) : ~IsSpace(s[i]) /\ (i = 1 \/ IsSpace(s[i - 1]))}
        ends == {i \in 1..Len(s) : ~IsSpace(s[i]) /\ (i = Len(s) \/ IsSpace(s[i + 1]))}
        nth(S, k) == CHOOSE i \in S : Cardinality({j \in S : j < i}) = k - 1
    IN  [k \in 1..Cardinality(starts) |-> SubSeq(s, nth(starts, k), nth(ends, k))]

\* float(): the tokens of the modelled lines are unsigned digit strings; any
\* other token raises ValueError.
IsFloat(s) == s # <<>> /\ \A i \in 1..Len(s) : s[i] \in Digits

FloatVal(s) ==
    LET val[i \in 0..Len(s)] == IF i = 0 THEN 0 ELSE 10 * val[i - 1] + DigitVal(s[i])
    IN  val[Len(s)]

\* ------------------------------------------------------------ command text
TXPrefix == <<"T", "X", ":", " ">>
ERRPrefix == <<"E", "R", "R", "O", "R", ":", " ">>
OkToken == <<"o", "k">>

MsgOk == <<"o", "k">>

\* an inbound line that is no acknowledgment: the firmware's echo of a status
MsgEcho == <<"e", ":", "o", "k">>

M17 == <<"M", "1", "7">>
M201 == <<"M", "2", "0", "1", " ", "X", "5", "0", " ", "Y", "5", "0">>
M204 == <<"M", "2", "0", "4", " ", "P", "5", "0", " ", "T", "1", "0", "0">>
M205 == <<"M", "2", "0", "5", " ", "X", "5", " ", "Y", "5">>
G28X == <<"G", "2", "8", " ", "X">>
G28Y == <<"G", "2", "8", " ", "Y">>
G90 == <<"G", "9", "0">>
G0Center == <<"G", "0", " ", "X", "0", " ", "Y", "0", " ", "F", "3", "0", "0">>

\* plot_start: the commands sent before the first line of the list; the
\* default start_gcode setting is empty and adds none.
HomingSeq == <<M17, M201, M204, M205, G28X, G28Y, G90, G0Center>>

\* plot_pause: f'G0 Z{angle} F1000' with pen_angle_up = 90
PenUpCmd == <<"G", "0", " ", "Z", "9", "0", " ", "F", "1", "0", "0", "0">>

\* plot_stop: the non-blank lines of the end_gcode setting
EndGcode ==
    << <<"M", "2", "8", "0", " ", "P", "0", " ", "S", "9", "0", " ", "T", "2", "5", "0">>,
       <<"G", "0", " ", "X", "0", " ", "Y", "0", " ", "F", "3", "0", "0", "0">> >>

M112 == <<"M", "1", "1", "2">>
M18 == <<"M", "1", "8">>

\* emergency_stop with the motors disabled before the hard stop
EStopSeqMotorsFirst == <<M18, M112, M112, M112, M112, M112, PenUpCmd>>

\* emergency_stop: the raw writes, in order
EStopSeq == <<M112, M112, M112, M112, M112, M18, PenUpCmd>>

\* connect: the initialisation commands sent after a successful connect
M100 == <<"M", "1", "0", "0">>
G92 == <<"G", "9", "2", " ", "X", "0", " ", "Y", "0", " ", "Z", "9", "0">>
ConnectSeq == <<M100, G92>>

\* ------------------------------------------------------ command-list lines
LnBlank == <<" ">>
LnComment == <<";", "h">>
LnMove == <<"G", "1", " ", "X", "5">>

GcodeLines == {LnBlank, LnComment, LnMove}

RECURSIVE SeqsUpTo(_, _)
SeqsUpTo(S, n) ==
    IF n = 0 THEN {<<>>}
    ELSE LET shorter == SeqsUpTo(S, n - 1)
         IN  shorter \cup {Append(q, x) : q \in {r \in shorter : Len(r) = n - 1}, x \in S}

GcodeLists == SeqsUpTo(GcodeLines, MaxLines)

\* send_next_line, line 77 / 92: blank and comment-only lines are not written
IsSkippable(line) == ~(Strip(line) # <<>> /\ ~StartsWith(Strip(line), <<";">>))

NumReal(g) == Cardinality({i \in 1..Len(g) : ~IsSkippable(g[i])})

\* ------------------------------------------------------- position tracking
Home == [x |-> 0, y |-> 0, z |-> 90]

MoveCmds == { <<"G", "0">>, <<"G", "1">>, <<"G", "0", "0">>, <<"G", "0", "1">> }

ApplyPart(pos, part) ==
    IF StartsWith(part, <<"X">>)
    THEN IF IsFloat(Tail(part)) THEN [pos EXCEPT !.x = FloatVal(Tail(part))] ELSE pos
    ELSE IF StartsWith(part, <<"Y">>)
    THEN IF IsFloat(Tail(part)) THEN [pos EXCEPT !.y = FloatVal(Tail(part))] ELSE pos
    ELSE IF StartsWith(part, <<"Z">>)
    THEN IF IsFloat(Tail(part)) THEN [pos EXCEPT !.z = FloatVal(Tail(part))] ELSE pos
    ELSE pos

\* the loop over parts[1:] with one try around the whole loop: the first
\* malformed coordinate token ends it
ApplyPartsStopOnError(pos, parts) ==
    LET bad == {i \in 1..Len(parts) :
                   /\ \E a \in {"X", "Y", "Z"} : StartsWith(parts[i], <<a>>)
                   /\ ~IsFloat(Tail(parts[i]))}
        n == IF bad = {} THEN Len(parts) ELSE (CHOOSE i \in bad : \A j \in bad : i <= j) - 1
        after[i \in 0..n] ==
            IF i = 0 THEN pos ELSE ApplyPart(after[i - 1], parts[i])
    IN  after[n]

\* lines 117-133: the loop over parts[1:]
ApplyParts(pos, parts) ==
    LET after[i \in 0..Len(parts)] ==
            IF i = 0 THEN pos ELSE ApplyPart(after[i - 1], parts[i])
    IN  after[Len(parts)]

update_gondola_position(pos, gcode_line) ==
    CHOOSE new \in
        UNION { { IF line = <<>> \/ StartsWith(line, <<";">>) THEN pos
                  ELSE IF parts = <<>> THEN pos
                  ELSE IF Head(parts) \in MoveCmds THEN ApplyParts(pos, Tail(parts))
                  ELSE pos : parts \in {Split(line)} }
                : line \in {Strip(Upper(gcode_line))} } : TRUE

\* ------------------------------------------------------------------- state
VARIABLES
    current_gcode,      \* app.py: the command list being streamed
    current_turtle,     \* app.py: the path document (its Lines of points, or the Turtle)
    is_plotting,        \* app.py: plotting flag
    is_paused,          \* app.py: paused flag
    current_line,       \* app.py: line cursor
    gondola_position,   \* app.py: tracked position
    serial_open,        \* SerialHandler: serial is not None and is open
    current_port,       \* SerialHandler.current_port: "none" or the port's name
    running,            \* SerialHandler.running
    lock,               \* SerialHandler.lock: "free" or the holding thread
    portOk,             \* the port accepts I/O (FALSE once the device is lost)
    inbox,              \* complete lines received by the port, not yet read
    rbuf,               \* _read_loop: lines read and not yet handed over
    pc,                 \* position of each thread in the code
    stack,              \* return positions of each thread
    loc,                \* local variables of each thread
    hist                \* observations of the run, read only by the properties

vars == <<current_gcode, current_turtle, is_plotting, is_paused, current_line, gondola_position,
          serial_open, current_port, running, lock, portOk, inbox, rbuf, pc, stack, loc, hist>>

MaxAcks == MaxLines + 1

\* the port named by the connect request
PortName == "COM1"

NoLoc == [cmd |-> <<>>, line |-> <<>>, lidx |-> 0, tmp |-> 0, depth |-> 0,
          k |-> 0, wfail |-> FALSE]

NoSent == [i \in 1..MaxLines |-> 0]

Init ==
    /\ current_gcode \in GcodeLists
    /\ current_turtle = <<>>
    /\ is_plotting = FALSE
    /\ is_paused = FALSE
    /\ current_line = 0
    /\ gondola_position = Home
    /\ serial_open \in BOOLEAN
    /\ current_port = IF serial_open THEN PortName ELSE "none"
    /\ running = serial_open
    /\ lock = "free"
    /\ portOk = TRUE
    /\ inbox = <<>>
    /\ rbuf = <<>>
    /\ pc = [t \in Threads |-> IF t = "req" THEN "idle"
                               ELSE IF serial_open THEN "rd_loop" ELSE "dead"]
    /\ stack = [t \in Threads |-> <<>>]
    /\ loc = [t \in Threads |-> NoLoc]
    /\ hist = [ops |-> 0, lastOp |-> "none", lastRes |-> "ok", acks |-> 0, overlap |-> FALSE,
               completed |-> FALSE, pausePen |-> "none", sent |-> NoSent,
               resent |-> FALSE, clean |-> FALSE, arg |-> 0, wasOpen |-> FALSE, quiet |-> TRUE,
               twice |-> FALSE, raw |-> <<>>, await |-> 0]

is_connected == serial_open

\* the observations a request leaves when it is called: its name, its first
\* result, its argument, whether the transport was connected, whether it
\* repeats the request before it, and, for connect, whether the reader had
\* nothing received and not yet handled
NoteCall(op, res, n) ==
    [hist EXCEPT !.lastOp = op, !.lastRes = res, !.ops = @ + 1, !.arg = n,
                 !.wasOpen = is_connected, !.twice = (hist.lastOp = op), !.raw = <<>>,
                 !.quiet = (op = "connect" =>
                              (inbox = <<>> /\ rbuf = <<>> /\ pc["rdr"] \in {"rd_loop", "dead"}))]

\* serial_callback without the test for the acknowledgment token
serial_callbackAnyLine(message) == is_plotting /\ ~is_paused

\* serial_callback with `'ok' in message.lower()` for the token test
serial_callbackContainsOk(message) ==
    /\ is_plotting
    /\ ~is_paused
    /\ \E i \in 1..(Len(message) - 1) : SubSeq(Lower(message), i, i + 1) = OkToken

\* serial_callback, lines 61-62: the message makes the callback dispatch
serial_callback(message) ==
    is_plotting /\ ~is_paused /\ StartsWith(Lower(message), OkToken)

\* the percent of the progress event (line 86) in place of plot_status's
PercentOfNext ==
    (100 * (current_line + 1)) \div (IF Len(current_gcode) > 1 THEN Len(current_gcode) ELSE 1)

\* plot_status: the reported percent
Percent == (100 * current_line) \div (IF Len(current_gcode) > 1 THEN Len(current_gcode) ELSE 1)

\* the thread is inside send_command on behalf of send_next_line
SendingLine(t) ==
    pc[t] \in {"sc_chk", "sc_lock", "sc_write"} /\ stack[t] # <<>> /\ Head(stack[t]) = "snl_track"

\* the thread is inside one dispatch step, between the state check of line 70
\* and the cursor advance of line 89
InDispatch(t) ==
    pc[t] \in {"snl_chk", "snl_load", "snl_track", "snl_rd", "snl_wr", "snl_done"} \/ SendingLine(t)

\* the thread is inside send_next_line
InSnl(t) == pc[t] = "snl_entry" \/ InDispatch(t)

Inc2(n) == IF n < 2 THEN n + 1 ELSE 2

\* an exception leaves the current handler: the reader's loop ends
\* (_read_loop, lines 141-144), a request ends with an error response
Raise(t) ==
    /\ pc' = [pc EXCEPT ![t] = IF t = "rdr" THEN "dead" ELSE "idle"]
    /\ stack' = [stack EXCEPT ![t] = <<>>]
    /\ loc' = [loc EXCEPT ![t] = NoLoc]
    /\ lock' = IF lock = t THEN "free" ELSE lock
    /\ rbuf' = IF t = "rdr" THEN <<>> ELSE rbuf
    /\ hist' = IF t = "req" THEN [hist EXCEPT !.lastRes = "raised"] ELSE hist

\* the device acknowledges every command it receives; the acknowledgment is
\* lost when the port's input buffer is full
DeviceReply(buf) == IF Len(buf) < MaxInbox THEN Append(buf, MsgOk) ELSE buf

\* -------------------------------------------------- SerialHandler.send_command
ScChk(t) ==
    /\ pc[t] = "sc_chk"
    /\ IF ~is_connected
       THEN /\ pc' = [pc EXCEPT ![t] = Head(stack[t])]
            /\ stack' = [stack EXCEPT ![t] = Tail(stack[t])]
            /\ loc' = [loc EXCEPT ![t].cmd = <<>>, ![t].wfail = TRUE]
       ELSE /\ pc' = [pc EXCEPT ![t] = "sc_lock"]
            /\ UNCHANGED <<stack, loc>>
    /\ UNCHANGED <<current_gcode, current_turtle, is_plotting, is_paused, current_line, gondola_position,
                   serial_open, current_port, running, lock, portOk, inbox, rbuf, hist>>

ScLock(t) ==
    /\ pc[t] = "sc_lock"
    /\ lock = "free"
    /\ lock' = t
    /\ pc' = [pc EXCEPT ![t] = "sc_write"]
    /\ UNCHANGED <<current_gcode, current_turtle, is_plotting, is_paused, current_line, gondola_position,
                   serial_open, current_port, running, portOk, inbox, rbuf, stack, loc, hist>>

\* what a successful write of the thread's command leaves in the observations
NoteWrite(t) ==
    [hist EXCEPT
        !.sent = IF loc[t].lidx > 0
                 THEN [hist.sent EXCEPT ![loc[t].lidx] = Inc2(@)]
                 ELSE @,
        !.resent = @ \/ (t = "req" /\ hist.lastOp = "resume" /\ hist.pausePen # "none"
                          /\ loc[t].lidx > 0 /\ hist.sent[loc[t].lidx] > 0),
        !.pausePen = IF t = "req" /\ hist.lastOp = "pause" /\ @ = "pending"
                     THEN "sent" ELSE @,
        !.await = IF loc[t].lidx > 0 THEN Inc2(@) ELSE @]

ScWrite(t) ==
    /\ pc[t] \in {"sc_write", "sc_unlock"}
    /\ IF pc[t] = "sc_unlock"
       THEN /\ lock' = "free"
            /\ pc' = [pc EXCEPT ![t] = Head(stack[t])]
            /\ stack' = [stack EXCEPT ![t] = Tail(stack[t])]
            /\ loc' = [loc EXCEPT ![t].cmd = <<>>]
            /\ UNCHANGED <<inbox, hist>>
       ELSE \E wrote \in {serial_open /\ portOk} :
            \E msg \in {IF wrote THEN TXPrefix \o Strip(loc[t].cmd) ELSE ERRPrefix} :
                /\ inbox' = IF wrote THEN DeviceReply(inbox) ELSE inbox
                /\ hist' = IF wrote THEN NoteWrite(t) ELSE hist
                /\ IF serial_callback(msg)
                   THEN /\ pc' = [pc EXCEPT ![t] = "snl_entry"]
                        /\ stack' = [stack EXCEPT ![t] = <<"sc_unlock">> \o stack[t]]
                        /\ loc' = [loc EXCEPT ![t].wfail = ~wrote]
                        /\ UNCHANGED lock
                   ELSE /\ lock' = "free"
                        /\ pc' = [pc EXCEPT ![t] = Head(stack[t])]
                        /\ stack' = [stack EXCEPT ![t] = Tail(stack[t])]
                        /\ loc' = [loc EXCEPT ![t].cmd = <<>>, ![t].wfail = ~wrote]
    /\ UNCHANGED <<current_gcode, current_turtle, is_plotting, is_paused, current_line, gondola_position,
                   serial_open, current_port, running, portOk, rbuf>>

\* ------------------------------------------------------ SerialHandler.send_raw
SrWrite ==
    /\ pc["req"] = "sr_write"
    /\ inbox' = IF serial_open /\ portOk THEN DeviceReply(inbox) ELSE inbox
    /\ hist' = IF serial_open /\ portOk
               THEN [hist EXCEPT !.raw = Append(@, loc["req"].cmd)]
               ELSE hist
    /\ pc' = [pc EXCEPT !["req"] = Head(stack["req"])]
    /\ stack' = [stack EXCEPT !["req"] = Tail(stack["req"])]
    /\ loc' = [loc EXCEPT !["req"].cmd = <<>>]
    /\ UNCHANGED <<current_gcode, current_turtle, is_plotting, is_paused, current_line,
                   gondola_position, serial_open, current_port, running, lock, portOk, rbuf>>

\* --------------------------------------------------------- send_next_line
\* return from send_next_line to its caller
SnlReturn(t) ==
    /\ pc' = [pc EXCEPT ![t] = Head(stack[t])]
    /\ stack' = [stack EXCEPT ![t] = Tail(stack[t])]
    /\ loc' = [loc EXCEPT ![t] = NoLoc]

\* line 70
SnlEntry(t) ==
    /\ pc[t] = "snl_entry"
    /\ IF is_paused \/ ~is_plotting
       THEN SnlReturn(t)
       ELSE /\ pc' = [pc EXCEPT ![t] = "snl_chk"]
            /\ UNCHANGED <<stack, loc>>
    /\ UNCHANGED <<current_gcode, current_turtle, is_plotting, is_paused, current_line, gondola_position,
                   serial_open, current_port, running, lock, portOk, inbox, rbuf, hist>>

\* line 73
SnlChk(t) ==
    /\ pc[t] = "snl_chk"
    /\ pc' = [pc EXCEPT ![t] = IF current_line < Len(current_gcode)
                               THEN "snl_load" ELSE "snl_done"]
    /\ UNCHANGED <<current_gcode, current_turtle, is_plotting, is_paused, current_line, gondola_position,
                   serial_open, current_port, running, lock, portOk, inbox, rbuf, stack, loc, hist>>

\* lines 74-78: read the line under the cursor; a real command goes to
\* send_command, a blank or comment-only line goes straight to the advance
SnlLoad(t) ==
    /\ pc[t] = "snl_load"
    /\ IF current_line >= Len(current_gcode)
       THEN Raise(t)
       ELSE LET line == current_gcode[current_line + 1]
            IN  /\ loc' = [loc EXCEPT ![t].line = line, ![t].lidx = current_line + 1,
                                      ![t].cmd = IF IsSkippable(line) THEN <<>> ELSE line]
                /\ IF IsSkippable(line)
                   THEN /\ pc' = [pc EXCEPT ![t] = "snl_rd"]
                        /\ UNCHANGED stack
                   ELSE /\ pc' = [pc EXCEPT ![t] = "sc_chk"]
                        /\ stack' = [stack EXCEPT ![t] = <<"snl_track">> \o stack[t]]
                /\ UNCHANGED <<lock, rbuf, hist>>
    /\ UNCHANGED <<current_gcode, current_turtle, is_plotting, is_paused, current_line, gondola_position,
                   serial_open, current_port, running, portOk, inbox>>

\* line 81
SnlTrack(t) ==
    /\ pc[t] = "snl_track"
    /\ gondola_position' = update_gondola_position(gondola_position, loc[t].line)
    /\ pc' = [pc EXCEPT ![t] = "snl_rd"]
    /\ UNCHANGED <<current_gcode, current_turtle, is_plotting, is_paused, current_line,
                   serial_open, current_port, running, lock, portOk, inbox, rbuf, stack, loc, hist>>

\* line 89, the read of current_line += 1
SnlRd(t) ==
    /\ pc[t] = "snl_rd"
    /\ loc' = [loc EXCEPT ![t].tmp = current_line]
    /\ pc' = [pc EXCEPT ![t] = "snl_wr"]
    /\ UNCHANGED <<current_gcode, current_turtle, is_plotting, is_paused, current_line, gondola_position,
                   serial_open, current_port, running, lock, portOk, inbox, rbuf, stack, hist>>

\* line 89, the write of current_line += 1, and lines 92-93: after a blank or
\* comment-only line send_next_line calls itself
SnlWr(t) ==
    /\ pc[t] = "snl_wr"
    /\ current_line' = loc[t].tmp + 1
    /\ IF IsSkippable(loc[t].line)
       THEN /\ pc' = [pc EXCEPT ![t] = "snl_entry"]
            /\ loc' = [loc EXCEPT ![t] = [NoLoc EXCEPT !.depth = loc[t].depth + 1]]
            /\ UNCHANGED stack
       ELSE SnlReturn(t)
    /\ UNCHANGED <<current_gcode, current_turtle, is_plotting, is_paused, gondola_position,
                   serial_open, current_port, running, lock, portOk, inbox, rbuf, hist>>

\* lines 95-98
SnlDone(t) ==
    /\ pc[t] = "snl_done"
    /\ is_plotting' = FALSE
    /\ hist' = [hist EXCEPT !.completed = TRUE]
    /\ SnlReturn(t)
    /\ UNCHANGED <<current_gcode, current_turtle, is_paused, current_line, gondola_position,
                   serial_open, current_port, running, lock, portOk, inbox, rbuf>>

\* ------------------------------------------------- SerialHandler._read_loop
\* line 125-129: leave the loop, or read everything the port has received
RdLoop ==
    /\ pc["rdr"] = "rd_loop"
    /\ IF ~running \/ ~serial_open \/ ~portOk
       THEN /\ pc' = [pc EXCEPT !["rdr"] = "dead"]
            /\ UNCHANGED <<inbox, rbuf>>
       ELSE /\ inbox # <<>>
            /\ rbuf' = inbox
            /\ inbox' = <<>>
            /\ pc' = [pc EXCEPT !["rdr"] = "rd_line"]
    /\ UNCHANGED <<current_gcode, current_turtle, is_plotting, is_paused, current_line, gondola_position,
                   serial_open, current_port, running, lock, portOk, stack, loc, hist>>

\* lines 132-137 with serial_callback: hand the next complete line over
RdLine ==
    /\ pc["rdr"] = "rd_line"
    /\ IF rbuf = <<>>
       THEN /\ pc' = [pc EXCEPT !["rdr"] = "rd_loop"]
            /\ UNCHANGED <<rbuf, stack, hist>>
       ELSE /\ rbuf' = Tail(rbuf)
            /\ IF serial_callback(Head(rbuf))
               THEN /\ pc' = [pc EXCEPT !["rdr"] = "snl_entry"]
                    /\ stack' = [stack EXCEPT !["rdr"] = <<"rd_line">>]
                    /\ hist' = [hist EXCEPT
                                  !.acks = IF @ < MaxAcks THEN @ + 1 ELSE @,
                                  !.overlap = @ \/ (hist.lastOp = "start" /\ hist.lastRes = "running"),
                                  !.clean = FALSE,
                                  !.await = IF @ > 0 THEN @ - 1 ELSE 0]
               ELSE /\ hist' = IF StartsWith(Lower(Head(rbuf)), OkToken) /\ hist.await > 0
                               THEN [hist EXCEPT !.await = @ - 1]
                               ELSE hist
                    /\ UNCHANGED <<pc, stack>>
    /\ UNCHANGED <<current_gcode, current_turtle, is_plotting, is_paused, current_line, gondola_position,
                   serial_open, current_port, running, lock, portOk, inbox, loc>>

\* the device is unplugged or stops responding: I/O on the port raises
PortFail ==
    /\ serial_open
    /\ portOk
    /\ hist.ops < MaxOps
    /\ portOk' = FALSE
    /\ hist' = [hist EXCEPT !.ops = @ + 1]
    /\ UNCHANGED <<current_gcode, current_turtle, is_plotting, is_paused, current_line, gondola_position,
                   serial_open, current_port, running, lock, inbox, rbuf, pc, stack, loc>>

\* the device sends a line of its own that is no acknowledgment
DeviceSays ==
    /\ serial_open
    /\ portOk
    /\ Len(inbox) < MaxInbox
    /\ inbox' = Append(inbox, MsgEcho)
    /\ UNCHANGED <<current_gcode, current_turtle, is_plotting, is_paused, current_line,
                   gondola_position, serial_open, current_port, running, lock, portOk,
                   rbuf, pc, stack, loc, hist>>

\* ------------------------------------------------------- request handlers
\* the request context calls send_command / send_raw with one command of a
\* fixed sequence and comes back at `ret`
\* (send_command line 86 / send_raw line 105: without a connection the call
\* returns at once; only the request context opens or closes the port)
CallSend(entry, seq, k, ret) ==
    /\ pc' = [pc EXCEPT !["req"] = IF is_connected THEN entry ELSE ret]
    /\ stack' = [stack EXCEPT !["req"] = IF is_connected THEN <<ret>> ELSE <<>>]
    /\ loc' = [loc EXCEPT !["req"] = [NoLoc EXCEPT !.cmd = IF is_connected THEN seq[k] ELSE <<>>,
                                                   !.k = k]]

\* the handler returns its success response
HandlerReturn ==
    /\ pc["req"] = "h_ret"
    /\ pc' = [pc EXCEPT !["req"] = "idle"]
    /\ stack' = [stack EXCEPT !["req"] = <<>>]
    /\ loc' = [loc EXCEPT !["req"] = NoLoc]
    /\ hist' = [hist EXCEPT !.lastRes = "ok"]
    /\ UNCHANGED <<current_gcode, current_turtle, is_plotting, is_paused, current_line, gondola_position,
                   serial_open, current_port, running, lock, portOk, inbox, rbuf>>

\* plot_start without the test for an empty command list
StartCallAnyList ==
    /\ pc["req"] = "idle"
    /\ hist.ops < MaxOps
    /\ IF ~is_connected
       THEN /\ hist' = NoteCall("start", "error", 0)
            /\ UNCHANGED <<is_plotting, pc>>
       ELSE /\ is_plotting' = TRUE
            /\ pc' = [pc EXCEPT !["req"] = "st_paused"]
            /\ hist' = [NoteCall("start", "running", 0) EXCEPT
                                    !.acks = 0, !.overlap = InSnl("rdr"),
                                    !.completed = FALSE, !.sent = NoSent,
                                    !.resent = FALSE, !.await = 0]
    /\ UNCHANGED <<current_gcode, current_turtle, is_paused, current_line, gondola_position,
                   serial_open, current_port, running, lock, portOk, inbox, rbuf, stack, loc>>

\* plot_start, lines 390-396
StartCall ==
    /\ pc["req"] = "idle"
    /\ hist.ops < MaxOps
    /\ IF ~is_connected \/ current_gcode = <<>>
       THEN /\ hist' = NoteCall("start", "error", 0)
            /\ UNCHANGED <<is_plotting, pc>>
       ELSE /\ is_plotting' = TRUE
            /\ pc' = [pc EXCEPT !["req"] = "st_paused"]
            /\ hist' = [NoteCall("start", "running", 0) EXCEPT
                                    !.acks = 0, !.overlap = InSnl("rdr"),
                                    !.completed = FALSE, !.sent = NoSent,
                                    !.resent = FALSE, !.await = 0]
    /\ UNCHANGED <<current_gcode, current_turtle, is_paused, current_line, gondola_position,
                   serial_open, current_port, running, lock, portOk, inbox, rbuf, stack, loc>>

\* line 397
StPaused ==
    /\ pc["req"] = "st_paused"
    /\ is_paused' = FALSE
    /\ hist' = [hist EXCEPT !.pausePen = "none"]
    /\ pc' = [pc EXCEPT !["req"] = "st_line"]
    /\ UNCHANGED <<current_gcode, current_turtle, is_plotting, current_line, gondola_position,
                   serial_open, current_port, running, lock, portOk, inbox, rbuf, stack, loc>>

\* line 398
StLine ==
    /\ pc["req"] = "st_line"
    /\ current_line' = 0
    /\ pc' = [pc EXCEPT !["req"] = "st_gondola"]
    /\ UNCHANGED <<current_gcode, current_turtle, is_plotting, is_paused, gondola_position,
                   serial_open, current_port, running, lock, portOk, inbox, rbuf, stack, loc, hist>>

\* lines 399-402
StGondola ==
    /\ pc["req"] = "st_gondola"
    /\ gondola_position' = Home
    /\ CallSend("sc_lock", HomingSeq, 1, "st_home")
    /\ UNCHANGED <<current_gcode, current_turtle, is_plotting, is_paused, current_line,
                   serial_open, current_port, running, lock, portOk, inbox, rbuf, hist>>

\* lines 403-431: the rest of the homing sequence, then the first dispatch
StHome ==
    /\ pc["req"] = "st_home"
    /\ IF loc["req"].k < Len(HomingSeq)
       THEN CallSend("sc_lock", HomingSeq, loc["req"].k + 1, "st_home")
       ELSE /\ pc' = [pc EXCEPT !["req"] = "snl_entry"]
            /\ stack' = [stack EXCEPT !["req"] = <<"h_ret">>]
            /\ loc' = [loc EXCEPT !["req"] = NoLoc]
    /\ UNCHANGED <<current_gcode, current_turtle, is_plotting, is_paused, current_line, gondola_position,
                   serial_open, current_port, running, lock, portOk, inbox, rbuf, hist>>

\* plot_pause, lines 439-443
PauseCall ==
    /\ pc["req"] = "idle"
    /\ hist.ops < MaxOps
    /\ is_paused' = TRUE
    /\ hist' = [NoteCall("pause", "running", 0) EXCEPT
                            !.pausePen = "pending", !.clean = FALSE]
    /\ CallSend("sc_lock", <<PenUpCmd>>, 1, "h_ret")
    /\ UNCHANGED <<current_gcode, current_turtle, is_plotting, current_line, gondola_position,
                   serial_open, current_port, running, lock, portOk, inbox, rbuf>>

\* plot_resume, lines 452-453
ResumeCall ==
    /\ pc["req"] = "idle"
    /\ hist.ops < MaxOps
    /\ is_paused' = FALSE
    /\ hist' = [NoteCall("resume", "running", 0) EXCEPT !.clean = FALSE]
    /\ pc' = [pc EXCEPT !["req"] = "snl_entry"]
    /\ stack' = [stack EXCEPT !["req"] = <<"h_ret">>]
    /\ UNCHANGED <<current_gcode, current_turtle, is_plotting, current_line, gondola_position,
                   serial_open, current_port, running, lock, portOk, inbox, rbuf, loc>>

\* plot_stop, line 461
StopCall ==
    /\ pc["req"] = "idle"
    /\ hist.ops < MaxOps
    /\ is_plotting' = FALSE
    /\ hist' = [NoteCall("stop", "running", 0) EXCEPT
                            !.clean = /\ is_plotting /\ ~is_paused
                                      /\ 0 < current_line
                                      /\ current_line < Len(current_gcode)
                                      /\ ~InSnl("rdr")]
    /\ pc' = [pc EXCEPT !["req"] = "sp_paused"]
    /\ UNCHANGED <<current_gcode, current_turtle, is_paused, current_line, gondola_position,
                   serial_open, current_port, running, lock, portOk, inbox, rbuf, stack, loc>>

\* line 462
SpPaused ==
    /\ pc["req"] = "sp_paused"
    /\ is_paused' = FALSE
    /\ hist' = [hist EXCEPT !.pausePen = "none"]
    /\ pc' = [pc EXCEPT !["req"] = "sp_line"]
    /\ UNCHANGED <<current_gcode, current_turtle, is_plotting, current_line, gondola_position,
                   serial_open, current_port, running, lock, portOk, inbox, rbuf, stack, loc>>

\* plot_stop without the reset of the cursor
SpLineKeepsCursor ==
    /\ pc["req"] = "sp_line"
    /\ CallSend("sc_lock", EndGcode, 1, "sp_end")
    /\ UNCHANGED <<current_gcode, current_turtle, is_plotting, is_paused, current_line, gondola_position,
                   serial_open, current_port, running, lock, portOk, inbox, rbuf, hist>>

\* lines 463-470
SpLine ==
    /\ pc["req"] = "sp_line"
    /\ current_line' = 0
    /\ CallSend("sc_lock", EndGcode, 1, "sp_end")
    /\ UNCHANGED <<current_gcode, current_turtle, is_plotting, is_paused, gondola_position,
                   serial_open, current_port, running, lock, portOk, inbox, rbuf, hist>>

\* lines 468-472
SpEnd ==
    /\ pc["req"] = "sp_end"
    /\ IF loc["req"].k < Len(EndGcode)
       THEN CallSend("sc_lock", EndGcode, loc["req"].k + 1, "sp_end")
       ELSE /\ pc' = [pc EXCEPT !["req"] = "h_ret"]
            /\ UNCHANGED <<stack, loc>>
    /\ UNCHANGED <<current_gcode, current_turtle, is_plotting, is_paused, current_line, gondola_position,
                   serial_open, current_port, running, lock, portOk, inbox, rbuf, hist>>

\* emergency_stop, line 342
EStopCall ==
    /\ pc["req"] = "idle"
    /\ hist.ops < MaxOps
    /\ is_plotting' = FALSE
    /\ hist' = [NoteCall("estop", "running", 0) EXCEPT !.clean = FALSE]
    /\ pc' = [pc EXCEPT !["req"] = "es_paused"]
    /\ UNCHANGED <<current_gcode, current_turtle, is_paused, current_line, gondola_position,
                   serial_open, current_port, running, lock, portOk, inbox, rbuf, stack, loc>>

\* lines 343-349
EsPaused ==
    /\ pc["req"] = "es_paused"
    /\ is_paused' = FALSE
    /\ hist' = [hist EXCEPT !.pausePen = "none"]
    /\ IF is_connected
       THEN CallSend("sr_write", EStopSeq, 1, "es_raw")
       ELSE /\ pc' = [pc EXCEPT !["req"] = "h_ret"]
            /\ UNCHANGED <<stack, loc>>
    /\ UNCHANGED <<current_gcode, current_turtle, is_plotting, current_line, gondola_position,
                   serial_open, current_port, running, lock, portOk, inbox, rbuf>>

\* lines 348-356
EsRaw ==
    /\ pc["req"] = "es_raw"
    /\ IF loc["req"].k < Len(EStopSeq)
       THEN CallSend("sr_write", EStopSeq, loc["req"].k + 1, "es_raw")
       ELSE /\ pc' = [pc EXCEPT !["req"] = "es_flush"]
            /\ UNCHANGED <<stack, loc>>
    /\ UNCHANGED <<current_gcode, current_turtle, is_plotting, is_paused, current_line, gondola_position,
                   serial_open, current_port, running, lock, portOk, inbox, rbuf, hist>>

\* lines 359-361: reset_input_buffer / reset_output_buffer are not inside a
\* try; on a lost port they raise out of the handler
EsFlush ==
    /\ pc["req"] = "es_flush"
    /\ IF serial_open /\ ~portOk
       THEN Raise("req") /\ UNCHANGED inbox
       ELSE /\ inbox' = <<>>
            /\ pc' = [pc EXCEPT !["req"] = "h_ret"]
            /\ UNCHANGED <<stack, loc, lock, rbuf, hist>>
    /\ UNCHANGED <<current_gcode, current_turtle, is_plotting, is_paused, current_line, gondola_position,
                   serial_open, current_port, running, portOk>>

\* plot_goto_line with max(0, line) alone
ClampBelowOnly(n) == IF n > 0 THEN n ELSE 0

\* plot_goto_line, line 489
Clamp(n) ==
    LET m == IF n < Len(current_gcode) THEN n ELSE Len(current_gcode)
    IN  IF m > 0 THEN m ELSE 0

GotoLine(n) ==
    /\ pc["req"] = "idle"
    /\ hist.ops < MaxOps
    /\ current_line' = Clamp(n)
    /\ hist' = [NoteCall("goto", "ok", n) EXCEPT !.clean = FALSE]
    /\ UNCHANGED <<current_gcode, current_turtle, is_plotting, is_paused, gondola_position,
                   serial_open, current_port, running, lock, portOk, inbox, rbuf, pc, stack, loc>>

\* upload_file, lines 533-549 (and generate, convert, transform_preview,
\* lines 605, 665, 727): the command list is replaced by the encoding of the
\* new document, whatever the controller is doing; the streaming
\* specifications do not follow the document itself
UploadCall(g) ==
    /\ pc["req"] = "idle"
    /\ hist.ops < MaxOps
    /\ current_gcode' = g
    /\ hist' = NoteCall("upload", "ok", 0)
    /\ UNCHANGED <<current_turtle, is_plotting, is_paused, current_line, gondola_position,
                   serial_open, current_port, running, lock, portOk, inbox, rbuf, pc, stack, loc>>

\* SerialHandler.connect without its call of disconnect()
ConnectCallKeepsOld ==
    /\ pc["req"] = "idle"
    /\ hist.ops < MaxOps
    /\ hist' = [NoteCall("connect", "running", 0) EXCEPT !.clean = FALSE]
    /\ pc' = [pc EXCEPT !["req"] = "cn_open"]
    /\ UNCHANGED <<current_gcode, current_turtle, is_plotting, is_paused, current_line, gondola_position,
                   serial_open, current_port, running, lock, portOk, inbox, rbuf, stack, loc>>

\* SerialHandler.disconnect, line 69, called by connect() and by the
\* disconnect route
ConnectCall ==
    /\ pc["req"] = "idle"
    /\ hist.ops < MaxOps
    /\ running' = FALSE
    /\ hist' = [NoteCall("connect", "running", 0) EXCEPT !.clean = FALSE]
    /\ pc' = [pc EXCEPT !["req"] = "join"]
    /\ stack' = [stack EXCEPT !["req"] = <<"cn_open">>]
    /\ UNCHANGED <<current_gcode, current_turtle, is_plotting, is_paused, current_line, gondola_position,
                   serial_open, current_port, lock, portOk, inbox, rbuf, loc>>

DisconnectCall ==
    /\ pc["req"] = "idle"
    /\ hist.ops < MaxOps
    /\ running' = FALSE
    /\ hist' = [NoteCall("disconnect", "running", 0) EXCEPT !.clean = FALSE]
    /\ pc' = [pc EXCEPT !["req"] = "join"]
    /\ stack' = [stack EXCEPT !["req"] = <<"h_ret">>]
    /\ UNCHANGED <<current_gcode, current_turtle, is_plotting, is_paused, current_line, gondola_position,
                   serial_open, current_port, lock, portOk, inbox, rbuf, loc>>

\* SerialHandler.disconnect without the reset of current_port
JoinKeepsPort ==
    /\ pc["req"] = "join"
    /\ pc["rdr"] # "rd_loop"
    /\ serial_open' = FALSE
    /\ inbox' = <<>>
    /\ pc' = [pc EXCEPT !["req"] = Head(stack["req"])]
    /\ stack' = [stack EXCEPT !["req"] = Tail(stack["req"])]
    /\ UNCHANGED <<current_gcode, current_turtle, is_plotting, is_paused, current_line, gondola_position,
                   current_port, running, lock, portOk, rbuf, loc, hist>>

\* SerialHandler.disconnect, lines 71-78: the join returns when the reader
\* has ended, or after its timeout while the reader is inside a callback;
\* then the port is closed
Join ==
    /\ pc["req"] = "join"
    /\ pc["rdr"] # "rd_loop"
    /\ serial_open' = FALSE
    /\ current_port' = "none"
    /\ inbox' = <<>>
    /\ pc' = [pc EXCEPT !["req"] = Head(stack["req"])]
    /\ stack' = [stack EXCEPT !["req"] = Tail(stack["req"])]
    /\ UNCHANGED <<current_gcode, current_turtle, is_plotting, is_paused, current_line, gondola_position,
                   running, lock, portOk, rbuf, loc, hist>>

\* SerialHandler.connect, lines 40-65, and connect(), lines 178-181: opening
\* the port fails or succeeds; on success the reader is started (a reader
\* that outlived the join goes on reading the new connection)
CnOpen ==
    /\ pc["req"] = "cn_open"
    /\ \E ok \in BOOLEAN :
          IF ok
          THEN /\ serial_open' = TRUE
               /\ current_port' = PortName
               /\ portOk' = TRUE
               /\ running' = TRUE
               /\ pc' = [pc EXCEPT !["req"] = "sc_lock",
                                   !["rdr"] = IF @ = "dead" THEN "rd_loop" ELSE @]
               /\ stack' = [stack EXCEPT !["req"] = <<"cn_init">>]
               /\ loc' = [loc EXCEPT !["req"] = [NoLoc EXCEPT !.cmd = ConnectSeq[1], !.k = 1]]
               /\ UNCHANGED hist
          ELSE /\ pc' = [pc EXCEPT !["req"] = "idle"]
               /\ hist' = [hist EXCEPT !.lastRes = "error"]
               /\ UNCHANGED <<serial_open, current_port, portOk, running, stack, loc>>
    /\ UNCHANGED <<current_gcode, current_turtle, is_plotting, is_paused, current_line, gondola_position,
                   lock, inbox, rbuf>>

\* connect(), lines 181-185
CnInit ==
    /\ pc["req"] = "cn_init"
    /\ IF loc["req"].k < Len(ConnectSeq)
       THEN CallSend("sc_lock", ConnectSeq, loc["req"].k + 1, "cn_init")
       ELSE /\ pc' = [pc EXCEPT !["req"] = "h_ret"]
            /\ UNCHANGED <<stack, loc>>
    /\ UNCHANGED <<current_gcode, current_turtle, is_plotting, is_paused, current_line, gondola_position,
                   serial_open, current_port, running, lock, portOk, inbox, rbuf, hist>>

\* ------------------------------------------------------------ specification
\* the steps of the code shared by both threads
Dispatch(t) ==
    \/ ScChk(t)
    \/ ScLock(t)
    \/ ScWrite(t)
    \/ SnlEntry(t)
    \/ SnlChk(t)
    \/ SnlLoad(t)
    \/ SnlTrack(t)
    \/ SnlRd(t)
    \/ SnlWr(t)
    \/ SnlDone(t)

\* the reader thread
RdrStep ==
    \/ Dispatch("rdr")
    \/ RdLoop
    \/ RdLine

\* the steps inside plot_start
StartStep ==
    \/ StPaused
    \/ StLine
    \/ StGondola
    \/ StHome

\* the steps inside plot_stop
StopStep ==
    \/ SpPaused
    \/ SpLine
    \/ SpEnd

\* the steps inside emergency_stop
EStopStep ==
    \/ SrWrite
    \/ EsPaused
    \/ EsRaw
    \/ EsFlush

\* the steps of the request context inside start, stop and emergency stop
StreamStep ==
    \/ Dispatch("req")
    \/ HandlerReturn
    \/ StartStep
    \/ StopStep
    \/ EStopStep

\* the steps inside connect and disconnect
ConnStep ==
    \/ Join
    \/ CnOpen
    \/ CnInit

\* a request arrives
StreamCall ==
    \/ StartCall
    \/ StopCall
    \/ EStopCall

OtherCall ==
    \/ PauseCall
    \/ ResumeCall
    \/ \E n \in -1..(MaxLines + 1) : GotoLine(n)
    \/ ConnectCall
    \/ DisconnectCall

Next ==
    \/ RdrStep
    \/ StreamStep
    \/ ConnStep
    \/ StreamCall
    \/ OtherCall
    \/ PortFail

Spec == Init /\ [][Next]_vars

\* streaming alone: the requests are start, stop and emergency stop
NextStream ==
    \/ RdrStep
    \/ StreamStep
    \/ StreamCall

SpecStream == Init /\ [][NextStream]_vars

\* pausing alone: the requests are start, pause and resume
NextResume ==
    \/ RdrStep
    \/ Dispatch("req")
    \/ HandlerReturn
    \/ StartStep
    \/ StartCall
    \/ PauseCall
    \/ ResumeCall

SpecResume == Init /\ [][NextResume]_vars

\* streaming with a device that also sends lines that are no acknowledgments:
\* the requests are start, pause, resume, stop and emergency stop
NextAck ==
    \/ RdrStep
    \/ StreamStep
    \/ StreamCall
    \/ PauseCall
    \/ ResumeCall
    \/ DeviceSays

SpecAck == Init /\ [][NextAck]_vars

\* streaming and loading: the requests are start and the upload of a file
NextUpload ==
    \/ RdrStep
    \/ Dispatch("req")
    \/ HandlerReturn
    \/ StartStep
    \/ StartCall
    \/ \E g \in GcodeLists : UploadCall(g)

SpecUpload == Init /\ [][NextUpload]_vars

\* both threads are scheduled (each is an operating-system thread): a step
\* of a thread that stays possible is eventually taken
FairStream == SpecStream /\ WF_vars(StreamStep) /\ WF_vars(RdrStep)

\* one stream with pauses: start() is called once, on the fresh controller,
\* and pause() only while a later request can still be made, so that a
\* resume() can follow every pause(); the port is never lost
LiveReqStep ==
    \/ Dispatch("req")
    \/ HandlerReturn
    \/ StartStep

StartOnce == StartCall /\ hist.ops = 0

PauseThenMore == PauseCall /\ hist.ops + 1 < MaxOps

ResumePaused == ResumeCall /\ is_paused

NextLive ==
    \/ RdrStep
    \/ LiveReqStep
    \/ StartOnce
    \/ PauseThenMore
    \/ ResumeCall

\* both threads keep running, and a paused controller is resumed
FairLive ==
    /\ Init
    /\ [][NextLive]_vars
    /\ WF_vars(RdrStep)
    /\ WF_vars(LiveReqStep)
    /\ WF_vars(ResumePaused)

\* ------------------------------------- _read_loop at the level of bytes
\* The reader alone, with the port's input as bytes: inbox holds the bytes
\* the port has received and the loop has not read (in_waiting), rbuf is the
\* loop's buffer, and hist records the bytes read and the callbacks made.
MaxBytes == 4

NL == "\n"

Bytes == {"o", " ", NL}

\* buffer.split('\n', 1): the position of the first terminator, 0 without one
FirstNL(b) ==
    IF \E i \in 1..Len(b) : b[i] = NL
    THEN CHOOSE i \in 1..Len(b) : b[i] = NL /\ \A j \in 1..(i - 1) : b[j] # NL
    ELSE 0

InitReader ==
    /\ current_gcode = <<>>
    /\ current_turtle = <<>>
    /\ is_plotting = FALSE
    /\ is_paused = FALSE
    /\ current_line = 0
    /\ gondola_position = Home
    /\ serial_open = TRUE
    /\ current_port = PortName
    /\ running = TRUE
    /\ lock = "free"
    /\ portOk = TRUE
    /\ inbox = <<>>
    /\ rbuf = <<>>
    /\ pc = [t \in Threads |-> IF t = "req" THEN "idle" ELSE "rd_loop"]
    /\ stack = [t \in Threads |-> <<>>]
    /\ loc = [t \in Threads |-> NoLoc]
    /\ hist = [wire |-> <<>>, delivered |-> <<>>, sent |-> 0, reads |-> 0]

\* the device sends one more byte
DeviceSends(c) ==
    /\ serial_open
    /\ portOk
    /\ hist.sent < MaxBytes
    /\ inbox' = Append(inbox, c)
    /\ hist' = [hist EXCEPT !.sent = @ + 1]
    /\ UNCHANGED <<current_gcode, current_turtle, is_plotting, is_paused, current_line, gondola_position,
                   serial_open, current_port, running, lock, portOk, rbuf, pc, stack, loc>>

\* lines 125-129: the loop ends, or reads all the bytes that wait and
\* appends them to the buffer (without bytes it sleeps and tests again);
\* I/O on a lost port raises and ends the loop (lines 141-144)
RdRead ==
    /\ pc["rdr"] = "rd_loop"
    /\ IF ~running \/ ~serial_open \/ ~portOk
       THEN /\ pc' = [pc EXCEPT !["rdr"] = "dead"]
            /\ UNCHANGED <<inbox, rbuf, hist>>
       ELSE /\ inbox # <<>>
            /\ rbuf' = rbuf \o inbox
            /\ inbox' = <<>>
            /\ hist' = [hist EXCEPT !.wire = @ \o inbox, !.reads = @ + 1]
            /\ pc' = [pc EXCEPT !["rdr"] = "rd_split"]
    /\ UNCHANGED <<current_gcode, current_turtle, is_plotting, is_paused, current_line, gondola_position,
                   serial_open, current_port, running, lock, portOk, stack, loc>>

\* the inner loop with `if` in place of `while`: one line for each read
RdSplitOnce ==
    /\ pc["rdr"] = "rd_split"
    /\ LET i == FirstNL(rbuf)
           line == Strip(SubSeq(rbuf, 1, i - 1))
       IN  IF i = 0
           THEN /\ pc' = [pc EXCEPT !["rdr"] = "rd_loop"]
                /\ UNCHANGED <<rbuf, hist>>
           ELSE /\ rbuf' = SubSeq(rbuf, i + 1, Len(rbuf))
                /\ IF line # <<>>
                   THEN /\ hist' = [hist EXCEPT !.delivered = Append(@, line)]
                        /\ \E raised \in BOOLEAN :
                              pc' = [pc EXCEPT !["rdr"] = IF raised THEN "dead" ELSE "rd_loop"]
                   ELSE /\ pc' = [pc EXCEPT !["rdr"] = "rd_loop"]
                        /\ UNCHANGED hist
    /\ UNCHANGED <<current_gcode, current_turtle, is_plotting, is_paused, current_line, gondola_position,
                   serial_open, current_port, running, lock, portOk, inbox, stack, loc>>

\* lines 132-137: while the buffer holds a terminator, cut the first line
\* off, strip it and, if it is not empty, call the callback with it; an
\* exception of the callback ends the loop (lines 141-144)
RdSplit ==
    /\ pc["rdr"] = "rd_split"
    /\ LET i == FirstNL(rbuf)
           line == Strip(SubSeq(rbuf, 1, i - 1))
       IN  IF i = 0
           THEN /\ pc' = [pc EXCEPT !["rdr"] = "rd_loop"]
                /\ UNCHANGED <<rbuf, hist>>
           ELSE /\ rbuf' = SubSeq(rbuf, i + 1, Len(rbuf))
                /\ IF line # <<>>
                   THEN /\ hist' = [hist EXCEPT !.delivered = Append(@, line)]
                        /\ \E raised \in BOOLEAN :
                              pc' = [pc EXCEPT !["rdr"] = IF raised THEN "dead" ELSE "rd_split"]
                   ELSE UNCHANGED <<pc, hist>>
    /\ UNCHANGED <<current_gcode, current_turtle, is_plotting, is_paused, current_line, gondola_position,
                   serial_open, current_port, running, lock, portOk, inbox, stack, loc>>

\* disconnect(), line 69, seen from the reader
ReaderStop ==
    /\ running
    /\ running' = FALSE
    /\ UNCHANGED <<current_gcode, current_turtle, is_plotting, is_paused, current_line, gondola_position,
                   serial_open, current_port, lock, portOk, inbox, rbuf, pc, stack, loc, hist>>

\* the device is unplugged
ReaderPortLost ==
    /\ portOk
    /\ portOk' = FALSE
    /\ UNCHANGED <<current_gcode, current_turtle, is_plotting, is_paused, current_line, gondola_position,
                   serial_open, current_port, running, lock, inbox, rbuf, pc, stack, loc, hist>>

NextReader ==
    \/ \E c \in Bytes : DeviceSends(c)
    \/ RdRead
    \/ RdSplit
    \/ ReaderStop
    \/ ReaderPortLost

SpecReader == InitReader /\ [][NextReader]_vars

\* ------------------------------------------------------- command codec
\* Coordinates are integers counting ten-thousandths of a millimetre, so that
\* a point finer than the three decimals of a move command can be written.
MaxDocLines == 2
MaxLinePoints == 3

Abs(v) == IF v < 0 THEN 0 - v ELSE v

DigitChar(d) == CHOOSE c \in Digits : DigitVal(c) = d

\* str() of a natural number
RECURSIVE NatStr(_)
NatStr(n) == IF n < 10 THEN <<DigitChar(n)>> ELSE Append(NatStr(n \div 10), DigitChar(n % 10))

\* f"{v:.3f}": the sign, the whole part, a point and three decimals of the
\* value rounded to thousandths (the coordinates of the model are never
\* halfway between two thousandths)
Fmt3(v) ==
    LET m == (Abs(v) + 5) \div 10
    IN  (IF v < 0 THEN <<"-">> ELSE <<>>)
            \o NatStr(m \div 1000)
            \o <<".", DigitChar((m \div 100) % 10), DigitChar((m \div 10) % 10), DigitChar(m % 10)>>

pen_angle_down == 40
feed_rate_travel == 1000
feed_rate_draw == 500

get_pen_up_command == PenUpCmd

get_pen_down_command == <<"G", "0", " ", "Z">> \o NatStr(pen_angle_down) \o <<" ", "F", "1", "0", "0", "0">>

\* get_goto_command with G0 for every move
get_goto_commandAlwaysTravel(x, y, pen_down) ==
    <<"G", "0", " ", "X">> \o Fmt3(x) \o <<" ", "Y">> \o Fmt3(y)
        \o <<" ", "F">> \o NatStr(IF pen_down THEN feed_rate_draw ELSE feed_rate_travel)

get_goto_command(x, y, pen_down) ==
    <<"G", IF pen_down THEN "1" ELSE "0", " ", "X">> \o Fmt3(x) \o <<" ", "Y">> \o Fmt3(y)
        \o <<" ", "F">> \o NatStr(IF pen_down THEN feed_rate_draw ELSE feed_rate_travel)

\* encode, one Line: pen up, travel to the first point, pen down, one draw
\* move for each later point
EncodeLine(line) ==
    <<get_pen_up_command, get_goto_command(line[1].x, line[1].y, FALSE), get_pen_down_command>>
        \o [i \in 1..(Len(line) - 1) |-> get_goto_command(line[i + 1].x, line[i + 1].y, TRUE)]

\* encode: the Lines in order; Lines with fewer than two points are left out
turtle_to_gcode(doc) ==
    LET out[i \in 0..Len(doc)] ==
            IF i = 0 THEN <<>>
            ELSE IF Len(doc[i]) < 2 THEN out[i - 1]
            ELSE out[i - 1] \o EncodeLine(doc[i])
    IN  out[Len(doc)]

\* float() of a decimal numeral: an optional sign, digits, an optional point
\* and up to four decimals
DecimalBody(s) == IF s # <<>> /\ Head(s) = "-" THEN Tail(s) ELSE s

DotPos(b) == IF \E i \in 1..Len(b) : b[i] = "." THEN CHOOSE i \in 1..Len(b) : b[i] = "." ELSE 0

WholePart(b) == IF DotPos(b) = 0 THEN b ELSE SubSeq(b, 1, DotPos(b) - 1)

FracPart(b) == IF DotPos(b) = 0 THEN <<>> ELSE SubSeq(b, DotPos(b) + 1, Len(b))

IsDecimal(s) ==
    LET b == DecimalBody(s)
    IN  /\ WholePart(b) \o FracPart(b) # <<>>
        /\ \A i \in 1..Len(WholePart(b)) : WholePart(b)[i] \in Digits
        /\ \A i \in 1..Len(FracPart(b)) : FracPart(b)[i] \in Digits
        /\ Len(FracPart(b)) <= 4

DecimalVal(s) ==
    LET b == DecimalBody(s)
        scale == CASE Len(FracPart(b)) = 0 -> 10000 [] Len(FracPart(b)) = 1 -> 1000
                   [] Len(FracPart(b)) = 2 -> 100 [] Len(FracPart(b)) = 3 -> 10 [] OTHER -> 1
        mag == FloatVal(WholePart(b)) * 10000 + FloatVal(FracPart(b)) * scale
    IN  IF s # <<>> /\ Head(s) = "-" THEN 0 - mag ELSE mag

\* ------------------------------------------------------------------ Turtle
\* Turtle._new_layer: a StrokeLayer with the pen's stroke is appended
new_layer(t) ==
    [t EXCEPT !.layers = Append(@, [lines |-> <<>>, color |-> t.color, diameter |-> t.diameter])]

\* Turtle.__init__: the path being built, with its initial layer
NewTurtle ==
    new_layer([layers |-> <<>>, position |-> [x |-> 0, y |-> 0], angle |-> 0,
               pen_up |-> TRUE, color |-> "#000000", diameter |-> 1])

\* Turtle._current_layer: the index of the last layer
current_layer(t) == Len(t.layers)

\* Turtle._new_line: a Line that starts at the cursor is appended to the
\* current layer
new_line(t) ==
    [t EXCEPT !.layers[current_layer(t)].lines =
                  Append(@, [points |-> <<t.position>>, color |-> t.color, diameter |-> t.diameter])]

\* Turtle.set_stroke without the new Line for a lowered pen
set_strokeNoLine(t, color, diameter) ==
    IF t.color # color \/ t.diameter # diameter
    THEN new_layer([t EXCEPT !.color = color, !.diameter = diameter])
    ELSE t

\* Turtle.set_stroke
set_stroke(t, color, diameter) ==
    IF t.color # color \/ t.diameter # diameter
    THEN LET u == new_layer([t EXCEPT !.color = color, !.diameter = diameter])
         IN  IF ~u.pen_up THEN new_line(u) ELSE u
    ELSE t

\* Turtle.pen_down without the test of the pen: every request starts a Line
pen_downAlways(t) == new_line([t EXCEPT !.pen_up = FALSE])

\* Turtle.pen_down
pen_down(t) ==
    IF t.pen_up
    THEN new_line([t EXCEPT !.pen_up = FALSE])
    ELSE t

\* Turtle.pen_up_cmd
pen_up_cmd(t) == [t EXCEPT !.pen_up = TRUE]

\* Turtle.jump_to
jump_to(t, x, y) == pen_down([pen_up_cmd(t) EXCEPT !.position = [x |-> x, y |-> y]])

\* Turtle.move_to without the test of the pen: the point is appended to the
\* last Line of the current layer whenever there is one
move_toAlwaysAppends(t, x, y) ==
    LET p == [x |-> x, y |-> y]
        u == [t EXCEPT !.position = p]
        n == Len(t.layers[current_layer(t)].lines)
    IN  IF n > 0
        THEN [u EXCEPT !.layers[current_layer(t)].lines[n].points = Append(@, p)]
        ELSE u

\* Turtle.move_to
move_to(t, x, y) ==
    LET p == [x |-> x, y |-> y]
        u == [t EXCEPT !.position = p]
        n == Len(t.layers[current_layer(t)].lines)
    IN  IF ~t.pen_up /\ n > 0
        THEN [u EXCEPT !.layers[current_layer(t)].lines[n].points = Append(@, p)]
        ELSE u

\* Turtle.get_lines: the Lines of two points or more, layer after layer
get_lines(t) ==
    LET drawn(layer) == SelectSeq(layer.lines, LAMBDA l : Len(l.points) >= 2)
        upto[i \in 0..Len(t.layers)] ==
            IF i = 0 THEN <<>> ELSE upto[i - 1] \o drawn(t.layers[i])
    IN  upto[Len(t.layers)]

\* the Lines of every layer, layer after layer
AllLines(t) ==
    LET upto[i \in 0..Len(t.layers)] ==
            IF i = 0 THEN <<>> ELSE upto[i - 1] \o t.layers[i].lines
    IN  upto[Len(t.layers)]

\* math.sqrt on the squares met here, to the unit below
RECURSIVE SqrtBetween(_, _, _)
SqrtBetween(v, lo, hi) ==
    IF hi - lo <= 1 THEN lo
    ELSE LET mid == (lo + hi) \div 2
         IN  IF mid * mid <= v THEN SqrtBetween(v, mid, hi) ELSE SqrtBetween(v, lo, mid)

\* Point.distance_to
distance_to(p, q) ==
    LET dx == p.x - q.x
        dy == p.y - q.y
    IN  SqrtBetween(dx * dx + dy * dy, 0, 32768)

\* Turtle.get_bounds: the box around every point of every Line
get_bounds(t) ==
    LET pts == UNION { { AllLines(t)[i].points[j] : j \in 1..Len(AllLines(t)[i].points) }
                       : i \in 1..Len(AllLines(t)) }
        xs == { p.x : p \in pts }
        ys == { p.y : p \in pts }
        least(S) == CHOOSE v \in S : \A w \in S : v <= w
        most(S) == CHOOSE v \in S : \A w \in S : w <= v
    IN  IF pts = {}
        THEN [min_x |-> 0, min_y |-> 0, max_x |-> 0, max_y |-> 0, width |-> 0, height |-> 0]
        ELSE [min_x |-> least(xs), min_y |-> least(ys), max_x |-> most(xs), max_y |-> most(ys),
              width |-> most(xs) - least(xs), height |-> most(ys) - least(ys)]

\* Turtle.count_points
count_points(t) ==
    LET upto[i \in 0..Len(AllLines(t))] ==
            IF i = 0 THEN 0 ELSE upto[i - 1] + Len(AllLines(t)[i].points)
    IN  upto[Len(AllLines(t))]

\* Turtle.count_lines: the segments, max(0, len(points) - 1) for each Line
count_lines(t) ==
    LET upto[i \in 0..Len(AllLines(t))] ==
            IF i = 0 THEN 0
            ELSE upto[i - 1] + (IF Len(AllLines(t)[i].points) > 1
                                THEN Len(AllLines(t)[i].points) - 1 ELSE 0)
    IN  upto[Len(AllLines(t))]

\* Turtle.get_draw_distance
get_draw_distance(t) ==
    LET along(pts) ==
            LET upto[k \in 0..Len(pts)] ==
                    IF k <= 1 THEN 0 ELSE upto[k - 1] + distance_to(pts[k - 1], pts[k])
            IN  upto[Len(pts)]
        total[i \in 0..Len(AllLines(t))] ==
            IF i = 0 THEN 0 ELSE total[i - 1] + along(AllLines(t)[i].points)
    IN  total[Len(AllLines(t))]

\* Turtle.get_travel_distance: from the end of each Line to the start of the
\* next one that has a point
get_travel_distance(t) ==
    LET step[i \in 0..Len(AllLines(t))] ==
            IF i = 0 THEN [total |-> 0, last |-> <<>>]
            ELSE LET pts == AllLines(t)[i].points
                 IN  IF pts = <<>> THEN step[i - 1]
                     ELSE [total |-> step[i - 1].total
                                      + (IF step[i - 1].last # <<>>
                                         THEN distance_to(step[i - 1].last[1], pts[1]) ELSE 0),
                           last |-> <<pts[Len(pts)]>>]
    IN  step[Len(AllLines(t))].total

\* the value of the axis token of a move command, the cursor's without one;
\* a malformed token is ignored
AxisValue(parts, axis, old) ==
    LET named == {i \in 1..Len(parts) : StartsWith(parts[i], <<axis>>) /\ IsDecimal(Tail(parts[i]))}
    IN  IF named = {} THEN old
        ELSE DecimalVal(Tail(parts[CHOOSE i \in named : \A j \in named : j <= i]))

HasAxis(parts) ==
    \E i \in 1..Len(parts) : StartsWith(parts[i], <<"X">>) \/ StartsWith(parts[i], <<"Y">>)

\* decode, one command line: a travel move opens a new Line, a draw move
\* appends a point, any other command is skipped
DecodeLine(t, gcode_line) ==
    LET parts == Split(Strip(Upper(gcode_line)))
    IN  IF parts = <<>> \/ ~HasAxis(Tail(parts)) THEN t
        ELSE IF Head(parts) \in {<<"G", "0">>, <<"G", "0", "0">>}
        THEN jump_to(t, AxisValue(Tail(parts), "X", t.position.x),
                        AxisValue(Tail(parts), "Y", t.position.y))
        ELSE IF Head(parts) \in {<<"G", "1">>, <<"G", "0", "1">>}
        THEN move_to(t, AxisValue(Tail(parts), "X", t.position.x),
                        AxisValue(Tail(parts), "Y", t.position.y))
        ELSE t

\* decode: the document of the Turtle the command lines build
gcode_to_turtle(gcode) ==
    LET after[i \in 0..Len(gcode)] ==
            IF i = 0 THEN NewTurtle ELSE DecodeLine(after[i - 1], gcode[i])
        lines == get_lines(after[Len(gcode)])
    IN  [i \in 1..Len(lines) |-> lines[i].points]

\* the points of the documents: one that three decimals write exactly,
\* (1.25, -0.75), and one that they do not, (0.0004, -0.0006)
DocPoints == { [x |-> 12500, y |-> -7500], [x |-> 4, y |-> -6] }

\* the Lines of two points or more
DocLines == {l \in SeqsUpTo(DocPoints, MaxLinePoints) : Len(l) >= 2}

Docs == SeqsUpTo(DocLines, MaxDocLines)

InitCodec ==
    /\ current_gcode = <<>>
    /\ current_turtle \in Docs
    /\ is_plotting = FALSE
    /\ is_paused = FALSE
    /\ current_line = 0
    /\ gondola_position = Home
    /\ serial_open = FALSE
    /\ current_port = "none"
    /\ running = FALSE
    /\ lock = "free"
    /\ portOk = TRUE
    /\ inbox = <<>>
    /\ rbuf = <<>>
    /\ pc = [t \in Threads |-> IF t = "req" THEN "idle" ELSE "dead"]
    /\ stack = [t \in Threads |-> <<>>]
    /\ loc = [t \in Threads |-> NoLoc]
    /\ hist = [stage |-> "document", doc |-> current_turtle]

\* upload_file, line 549: the command list is the encoding of the document
Encode ==
    /\ hist.stage = "document"
    /\ current_gcode' = turtle_to_gcode(current_turtle)
    /\ hist' = [hist EXCEPT !.stage = "encoded"]
    /\ UNCHANGED <<current_turtle, is_plotting, is_paused, current_line, gondola_position,
                   serial_open, current_port, running, lock, portOk, inbox, rbuf, pc, stack, loc>>

\* upload_file, line 535: the document is the decoding of the command list
Decode ==
    /\ hist.stage = "encoded"
    /\ current_turtle' = gcode_to_turtle(current_gcode)
    /\ hist' = [hist EXCEPT !.stage = "decoded"]
    /\ UNCHANGED <<current_gcode, is_plotting, is_paused, current_line, gondola_position,
                   serial_open, current_port, running, lock, portOk, inbox, rbuf, pc, stack, loc>>

NextCodec ==
    \/ Encode
    \/ Decode

SpecCodec == InitCodec /\ [][NextCodec]_vars

\* ------------------------------------------- the reader threads, one by one
\* connect() and disconnect() with every reader thread that connect() has
\* started: pc["rdr"] is the sequence of their positions, "loop" (at the test
\* of _read_loop's while), "callback" (inside the callback) or "dead"; the
\* last one is read_thread. Up to MaxConnects requests are made.
MaxConnects == 3

InitThreads ==
    /\ current_gcode = <<>>
    /\ current_turtle = <<>>
    /\ is_plotting = FALSE
    /\ is_paused = FALSE
    /\ current_line = 0
    /\ gondola_position = Home
    /\ serial_open = FALSE
    /\ current_port = "none"
    /\ running = FALSE
    /\ lock = "free"
    /\ portOk = TRUE
    /\ inbox = <<>>
    /\ rbuf = <<>>
    /\ pc = [req |-> "idle", rdr |-> <<>>]
    /\ stack = [t \in Threads |-> <<>>]
    /\ loc = [t \in Threads |-> NoLoc]
    /\ hist = [ops |-> 0, lastOp |-> "none"]

\* SerialHandler.disconnect, line 69, called by connect (line 38) or by the
\* disconnect route
ThDisconnect(op) ==
    /\ pc["req"] = "idle"
    /\ hist.ops < MaxConnects
    /\ running' = FALSE
    /\ pc' = [pc EXCEPT !["req"] = IF op = "connect" THEN "join_connect" ELSE "join"]
    /\ hist' = [ops |-> hist.ops + 1, lastOp |-> op]
    /\ UNCHANGED <<current_gcode, current_turtle, is_plotting, is_paused, current_line,
                   gondola_position, serial_open, current_port, lock, portOk, inbox, rbuf,
                   stack, loc>>

\* SerialHandler.disconnect, lines 71-78: read_thread is joined for at most a
\* second, which a reader at the test of its loop ends in time and a reader
\* inside a callback may not; then the port is closed
ThJoin ==
    /\ pc["req"] \in {"join", "join_connect"}
    /\ IF pc["rdr"] = <<>> THEN TRUE ELSE pc["rdr"][Len(pc["rdr"])] # "loop"
    /\ serial_open' = FALSE
    /\ current_port' = "none"
    /\ pc' = [pc EXCEPT !["req"] = IF @ = "join_connect" THEN "open" ELSE "idle"]
    /\ UNCHANGED <<current_gcode, current_turtle, is_plotting, is_paused, current_line,
                   gondola_position, running, lock, portOk, inbox, rbuf, stack, loc, hist>>

\* SerialHandler.connect, lines 40-65: the port is opened and a new reader
\* thread is started, or the opening fails
ThOpen ==
    /\ pc["req"] = "open"
    /\ \E ok \in BOOLEAN :
          IF ok
          THEN /\ serial_open' = TRUE
               /\ current_port' = PortName
               /\ running' = TRUE
               /\ pc' = [pc EXCEPT !["req"] = "idle", !["rdr"] = Append(@, "loop")]
          ELSE /\ pc' = [pc EXCEPT !["req"] = "idle"]
               /\ UNCHANGED <<serial_open, current_port, running>>
    /\ UNCHANGED <<current_gcode, current_turtle, is_plotting, is_paused, current_line,
                   gondola_position, lock, portOk, inbox, rbuf, stack, loc, hist>>

\* _read_loop, lines 125-144, reader i: the loop ends when the handler is not
\* running or has no open port; otherwise the reader reads, and a complete
\* line takes it into the callback
ThLoop(i) ==
    /\ pc["rdr"][i] = "loop"
    /\ IF ~running \/ ~serial_open
       THEN pc' = [pc EXCEPT !["rdr"][i] = "dead"]
       ELSE pc' = [pc EXCEPT !["rdr"][i] = "callback"]
    /\ UNCHANGED <<current_gcode, current_turtle, is_plotting, is_paused, current_line,
                   gondola_position, serial_open, current_port, running, lock, portOk,
                   inbox, rbuf, stack, loc, hist>>

\* _read_loop, line 137: the callback returns
ThCallbackReturns(i) ==
    /\ pc["rdr"][i] = "callback"
    /\ pc' = [pc EXCEPT !["rdr"][i] = "loop"]
    /\ UNCHANGED <<current_gcode, current_turtle, is_plotting, is_paused, current_line,
                   gondola_position, serial_open, current_port, running, lock, portOk,
                   inbox, rbuf, stack, loc, hist>>

ThSomeLoop == \E i \in 1..Len(pc["rdr"]) : ThLoop(i)

ThSomeCallbackReturns == \E i \in 1..Len(pc["rdr"]) : ThCallbackReturns(i)

NextThreads ==
    \/ ThDisconnect("connect")
    \/ ThDisconnect("disconnect")
    \/ ThJoin
    \/ ThOpen
    \/ ThSomeLoop
    \/ ThSomeCallbackReturns

SpecThreads == InitThreads /\ [][NextThreads]_vars

\* ------------------------------------------ position tracking on its own
\* update_gondola_position applied to one line: a first token followed by up
\* to MaxTokens further tokens
MaxTokens == 2

TrackCmds == { <<"G", "1">>, <<"g", "0">>, <<"G", "0", "1">>, <<"M", "1", "7">>, <<"G", "2">> }

TrackTokens == { <<"X", "5">>, <<"Y", "7">>, <<"Z", "4">>, <<"X", ".">>, <<"Y">>,
                 <<"z", "6">>, <<"F", "9">> }

TrackPositions == { Home, [x |-> 1, y |-> 2, z |-> 3] }

\* the line made of a first token and the tokens toks, one space between
TrackLine(cmd, toks) ==
    LET upto[i \in 0..Len(toks)] ==
            IF i = 0 THEN cmd ELSE upto[i - 1] \o <<" ">> \o toks[i]
    IN  upto[Len(toks)]

TrackLines == { TrackLine(cmd, toks) : cmd \in TrackCmds, toks \in SeqsUpTo(TrackTokens, MaxTokens) }

InitTrack ==
    /\ current_gcode \in { <<l>> : l \in TrackLines }
    /\ current_turtle = <<>>
    /\ is_plotting = FALSE
    /\ is_paused = FALSE
    /\ current_line = 0
    /\ gondola_position \in TrackPositions
    /\ serial_open = FALSE
    /\ current_port = "none"
    /\ running = FALSE
    /\ lock = "free"
    /\ portOk = TRUE
    /\ inbox = <<>>
    /\ rbuf = <<>>
    /\ pc = [t \in Threads |-> IF t = "req" THEN "idle" ELSE "dead"]
    /\ stack = [t \in Threads |-> <<>>]
    /\ loc = [t \in Threads |-> NoLoc]
    /\ hist = [stage |-> "line", before |-> gondola_position]

\* send_next_line, line 81: the position is updated from the dispatched line
Track ==
    /\ hist.stage = "line"
    /\ gondola_position' = update_gondola_position(gondola_position, current_gcode[1])
    /\ hist' = [hist EXCEPT !.stage = "tracked"]
    /\ UNCHANGED <<current_gcode, current_turtle, is_plotting, is_paused, current_line,
                   serial_open, current_port, running, lock, portOk, inbox, rbuf, pc, stack, loc>>

NextTrack == Track

SpecTrack == InitTrack /\ [][NextTrack]_vars

\* --------------------------------------------------- the Turtle on its own
\* a Turtle driven by up to MaxTurtleOps requests
MaxTurtleOps == 4

TurtleCoords == {0, 10000}

TurtleColors == {"#000000", "#ff0000"}

TurtleDiameters == {1, 2}

InitTurtle ==
    /\ current_gcode = <<>>
    /\ current_turtle = NewTurtle
    /\ is_plotting = FALSE
    /\ is_paused = FALSE
    /\ current_line = 0
    /\ gondola_position = Home
    /\ serial_open = FALSE
    /\ current_port = "none"
    /\ running = FALSE
    /\ lock = "free"
    /\ portOk = TRUE
    /\ inbox = <<>>
    /\ rbuf = <<>>
    /\ pc = [t \in Threads |-> IF t = "req" THEN "idle" ELSE "dead"]
    /\ stack = [t \in Threads |-> <<>>]
    /\ loc = [t \in Threads |-> NoLoc]
    /\ hist = [steps |-> 0, op |-> "none", pen_was_up |-> TRUE]

\* one request to the Turtle: the document becomes new and the request is
\* noted
TurtleDoes(op, new) ==
    /\ hist.steps < MaxTurtleOps
    /\ current_turtle' = new
    /\ hist' = [steps |-> hist.steps + 1, op |-> op, pen_was_up |-> current_turtle.pen_up]
    /\ UNCHANGED <<current_gcode, is_plotting, is_paused, current_line, gondola_position,
                   serial_open, current_port, running, lock, portOk, inbox, rbuf, pc, stack, loc>>

PenDown == TurtleDoes("pen_down", pen_down(current_turtle))

PenUp == TurtleDoes("pen_up_cmd", pen_up_cmd(current_turtle))

MoveTo == \E x, y \in TurtleCoords : TurtleDoes("move_to", move_to(current_turtle, x, y))

JumpTo == \E x, y \in TurtleCoords : TurtleDoes("jump_to", jump_to(current_turtle, x, y))

SetStroke ==
    \E c \in TurtleColors, d \in TurtleDiameters :
        TurtleDoes("set_stroke", set_stroke(current_turtle, c, d))

NextTurtle ==
    \/ PenDown
    \/ PenUp
    \/ MoveTo
    \/ JumpTo
    \/ SetStroke

SpecTurtle == InitTurtle /\ [][NextTurtle]_vars

TypeOK ==
    /\ is_plotting \in BOOLEAN
    /\ is_paused \in BOOLEAN
    /\ current_line \in 0..(MaxLines + 2)
    /\ lock \in {"free"} \cup Threads
    /\ Len(inbox) <= MaxInbox

\* ------------------------------------------------------------- properties
AllReal(g) == \A i \in 1..Len(g) : ~IsSkippable(g[i])

\* the thread is inside the write section of send_command or send_raw
InWrite(t) == pc[t] \in {"sc_write", "sr_write"}

\* start() was the only request and the only event since construction
OnlyStart == hist.ops = 1 /\ hist.lastOp = "start" /\ hist.lastRes # "error"

\* C1: a stream started by start() on a fresh controller, with no other
\* request, is completed after exactly as many acknowledgments were consumed
\* as the list has real commands (blank and comment lines consume none).
C1_AcksEqualRealCommands ==
    (OnlyStart /\ hist.completed) => hist.acks = NumReal(current_gcode)

\* C2: on a fresh controller with a list of n real commands, after start()
\* has returned and exactly n acknowledgments were then handled, with no
\* other request, the controller is no longer plotting, the cursor is n and
\* the percent is 100.
C2_AcksDriveToCompleted ==
    ( /\ OnlyStart
      /\ hist.lastRes = "ok"
      /\ pc["req"] = "idle"
      /\ ~hist.overlap
      /\ AllReal(current_gcode)
      /\ hist.acks = Len(current_gcode)
      /\ ~InSnl("rdr") )
        => (~is_plotting /\ current_line = Len(current_gcode) /\ Percent = 100)

C2_Witness ==
    /\ OnlyStart
    /\ hist.lastRes = "ok"
    /\ pc["req"] = "idle"
    /\ ~hist.overlap
    /\ AllReal(current_gcode)
    /\ Len(current_gcode) >= 2
    /\ hist.acks = Len(current_gcode)
    /\ ~InSnl("rdr")

\* C3: whenever the controller is paused by pause(), the pen-up command of
\* that pause() has already been written to the device.
C3_PenUpBeforePaused ==
    (is_paused /\ hist.pausePen # "none") => hist.pausePen = "sent"

\* C4: the dispatch made by a resume() that follows a pause() never writes a
\* line of the command list that was already written in this stream.
C4_NoResend == ~hist.resent

\* C5: whenever emergencyStop() has ended, it ended without raising and the
\* controller is neither plotting nor paused.
C5_EStopAlwaysSucceeds ==
    (hist.lastOp = "estop" /\ pc["req"] = "idle")
        => (hist.lastRes = "ok" /\ ~is_plotting /\ ~is_paused)

\* the start() after a stop(): from the reset up to the read of the first line
StartBeforeFirstLine ==
    /\ hist.lastOp = "start"
    /\ hist.lastRes = "running"
    /\ \/ pc["req"] = "st_home"
       \/ pc["req"] \in {"sc_lock", "sc_write"} /\ Head(stack["req"]) = "st_home"
       \/ pc["req"] \in {"snl_entry", "snl_chk", "snl_load"} /\ loc["req"].depth = 0

\* C6: stop() called while plotting at a cursor strictly inside the list, with
\* no dispatch step of the reader under way, leaves the controller stopped
\* with the cursor at 0; the start() that follows it dispatches from cursor 0
\* with the tracked position at home.
C6_StopThenStart ==
    /\ (hist.clean /\ hist.lastOp = "stop" /\ pc["req"] \notin {"sp_paused", "sp_line"})
          => (~is_plotting /\ ~is_paused /\ current_line = 0)
    /\ (hist.clean /\ StartBeforeFirstLine)
          => (current_line = 0 /\ gondola_position = Home)

C6_Witness ==
    /\ hist.clean
    /\ StartBeforeFirstLine
    /\ pc["req"] = "snl_load"
    /\ gondola_position = Home
    /\ current_line = 0

\* C7: the reader and the request context are never both inside a write to
\* the serial port.
C7_WritesSerialized == ~(InWrite("req") /\ InWrite("rdr"))

\* C8: while a thread is inside a dispatch step, between its state check and
\* its cursor advance, the state it checked still holds and the cursor it
\* read is still the cursor.
C8_DispatchAtomic ==
    \A t \in Threads :
        /\ InDispatch(t) => (is_plotting /\ ~is_paused)
        /\ pc[t] = "snl_wr" => loc[t].tmp = current_line

\* C9: the sent-command notification never takes a thread that holds the
\* writer lock back to the locked writer, and every stop() and
\* emergencyStop() that was called returns.
C9_StopNeverDeadlocks ==
    /\ [](\A t \in Threads : ~(pc[t] = "sc_lock" /\ lock = t))
    /\ ((hist.lastOp \in {"stop", "estop"} /\ pc["req"] # "idle") ~> (pc["req"] = "idle"))

C9_Witness ==
    /\ hist.lastOp = "stop"
    /\ pc["req"] = "sc_lock"
    /\ lock = "rdr"
    /\ SendingLine("rdr")

\* C10: a dispatch whose write failed neither updates the tracked position
\* nor advances the cursor.
C10_FailedWriteKeepsState ==
    [][\A t \in Threads :
          /\ (loc[t].wfail /\ pc[t] = "snl_track" /\ pc'[t] # "snl_track")
                => gondola_position' = gondola_position
          /\ (loc[t].wfail /\ pc[t] = "snl_wr" /\ pc'[t] # "snl_wr")
                => current_line' = current_line]_vars

\* the step is the call of the request `op`
Called(op) == hist'.ops = hist.ops + 1 /\ hist'.lastOp = op /\ portOk' = portOk

\* C11: start() without a connected transport, or with an empty command
\* list, ends at once with an error result; the flags, the cursor, the
\* tracked position and the port's traffic are as they were before the call.
C11_StartFailsCleanly ==
    [][(Called("start") /\ (~is_connected \/ current_gcode = <<>>))
          => /\ hist'.lastRes = "error"
             /\ pc'["req"] = "idle"
             /\ hist'.sent = hist.sent
             /\ UNCHANGED <<is_plotting, is_paused, current_line, gondola_position,
                            inbox, serial_open, lock>>]_vars

C11_Witness ==
    /\ hist.lastOp = "start"
    /\ hist.lastRes = "error"
    /\ pc["req"] = "idle"
    /\ is_plotting
    /\ current_line > 0

\* C12: start() called while the controller is plotting or paused (the
\* plotting flag is set in both) is rejected: it ends at once with an error result and neither resets the
\* cursor, nor homes, nor dispatches.
C12_StartRequiresIdle ==
    [][(Called("start") /\ is_plotting)
          => /\ hist'.lastRes = "error"
             /\ pc'["req"] = "idle"
             /\ UNCHANGED <<is_plotting, is_paused, current_line, gondola_position>>]_vars

\* C13: gotoLine(n) sets the cursor to 0 for n < 0, to the length of the
\* command list for n above it, to n otherwise; it writes nothing to the
\* port and leaves the flags and the tracked position as they were.
C13_GotoLineClamps ==
    [][Called("goto")
          => /\ current_line' = ( IF hist'.arg < 0 THEN 0
                                  ELSE IF hist'.arg > Len(current_gcode) THEN Len(current_gcode)
                                  ELSE hist'.arg )
             /\ hist'.sent = hist.sent
             /\ UNCHANGED <<is_plotting, is_paused, gondola_position, inbox, pc, lock>>]_vars

C13_Witness ==
    /\ hist.lastOp = "goto"
    /\ hist.arg > Len(current_gcode)
    /\ current_line = Len(current_gcode)
    /\ Len(current_gcode) > 0
    /\ is_plotting

\* the controller's state as the flags give it
Plotting == is_plotting /\ ~is_paused

Paused == is_plotting /\ is_paused

\* C14: the controller's state changes only along the edges of the state
\* diagram: the paused flag is raised only while plotting, a paused
\* controller plots again only by resume(), and completion happens only
\* while plotting with the cursor at the end of the command list.
C14_StateDiagramEdges ==
    [][/\ (~is_paused /\ is_paused') => Plotting
       /\ (Paused /\ Plotting') => hist'.lastOp = "resume"
       /\ (~hist.completed /\ hist'.completed)
             => (Plotting /\ current_line = Len(current_gcode))]_vars

\* the positions of the terminators among the bytes w
NLPos(w) == {i \in 1..Len(w) : w[i] = NL}

\* the complete lines among the bytes w, each stripped, in order
CompleteLines(w) ==
    LET nth(k) == CHOOSE i \in NLPos(w) : Cardinality({j \in NLPos(w) : j < i}) = k - 1
    IN  [k \in 1..Cardinality(NLPos(w)) |->
            Strip(SubSeq(w, IF k = 1 THEN 1 ELSE nth(k - 1) + 1, nth(k) - 1))]

NonBlank(lines) == SelectSeq(lines, LAMBDA l : l # <<>>)

\* the bytes of w after its last terminator
Unterminated(w) ==
    SubSeq(w, IF NLPos(w) = {} THEN 1 ELSE 1 + CHOOSE i \in NLPos(w) : \A j \in NLPos(w) : j <= i,
           Len(w))

IsPrefix(a, b) == Len(a) <= Len(b) /\ SubSeq(b, 1, Len(a)) = a

C16_DisconnectIdempotent ==
    /\ []((hist.lastOp = "disconnect" /\ pc["req"] = "idle")
            => (hist.lastRes = "ok" /\ ~is_connected /\ current_port = "none" /\ ~running))
    /\ [][(/\ hist'.lastOp = "disconnect"
           /\ ~hist'.wasOpen
           /\ Called("disconnect") \/ (hist.lastOp = "disconnect" /\ pc["req"] # "idle"))
             => UNCHANGED <<serial_open, current_port, running, portOk, inbox>>]_vars

C16_Witness ==
    /\ hist.lastOp = "disconnect"
    /\ hist.twice
    /\ ~hist.wasOpen
    /\ hist.lastRes = "ok"
    /\ pc["req"] = "idle"

\* C17: a connect() never ends by an exception, and one that ended with the
\* failed result leaves the transport not connected, with no current port,
\* whether or not a connection was open when it was called.
C17_ConnectFailureReported ==
    hist.lastOp = "connect"
        => /\ hist.lastRes # "raised"
           /\ hist.lastRes = "error"
                 => (pc["req"] = "idle" /\ ~is_connected /\ current_port = "none")

C17_Witness ==
    /\ hist.lastOp = "connect"
    /\ hist.lastRes = "error"
    /\ hist.wasOpen

\* C18: a write of a command line on a transport that is not connected fails
\* visibly: pause(), which writes the pen-up command, does not return
\* success when it was called without a connection.
C18_WriteNotConnectedFails ==
    (hist.lastOp = "pause" /\ ~hist.wasOpen /\ pc["req"] = "idle") => hist.lastRes # "ok"

\* start() has not yet written the last command of its homing sequence
HomingPending ==
    \/ pc["req"] \in {"st_paused", "st_line", "st_gondola"}
    \/ pc["req"] = "st_home" /\ loc["req"].k < Len(HomingSeq)
    \/ /\ pc["req"] \in {"sc_lock", "sc_write"}
       /\ stack["req"] # <<>>
       /\ Head(stack["req"]) = "st_home"

\* C20: while the start() of a fresh controller has homing commands left to
\* write, no line of the command list has been written to the port.
C20_HomingBeforeLines ==
    (OnlyStart /\ hist.lastRes = "running" /\ HomingPending) => hist.sent = NoSent

\* a coordinate as three decimals keep it
Round3(v) == LET m == ((Abs(v) + 5) \div 10) * 10 IN IF v < 0 THEN 0 - m ELSE m

\* a document with every coordinate as three decimals keep it
Round3Doc(doc) ==
    [i \in 1..Len(doc) |->
        [j \in 1..Len(doc[i]) |-> [x |-> Round3(doc[i][j].x), y |-> Round3(doc[i][j].y)]]]

IsAck(message) == StartsWith(Lower(message), OkToken)

\* C21: the reader enters a dispatch only from the callback of an inbound
\* line that begins with the acknowledgment token and is handled while the
\* controller is plotting and not paused; the request context dispatches
\* only inside start() and resume(); the cursor advances and command-list
\* lines are written only inside a dispatch.
C21_DispatchOnlyOnAck ==
    /\ [][(~InSnl("rdr") /\ InSnl("rdr")')
            => /\ pc["rdr"] = "rd_line"
               /\ rbuf # <<>>
               /\ IsAck(Head(rbuf))
               /\ is_plotting /\ ~is_paused]_vars
    /\ [](InSnl("req") => hist.lastOp \in {"start", "resume"})
    /\ [][\A t \in Threads :
            ((pc'[t] # pc[t] \/ loc'[t] # loc[t]) /\ ~InSnl(t))
               => (current_line' = current_line \/ (t = "req" /\ pc[t] \in {"st_line", "sp_line"}))
                  /\ \A i \in 1..MaxLines : hist'.sent[i] <= hist.sent[i]]_vars

C21_Witness ==
    /\ pc["rdr"] = "rd_line"
    /\ rbuf = <<MsgEcho>>
    /\ is_plotting
    /\ ~is_paused
    /\ hist.lastRes = "ok"
    /\ 0 < current_line
    /\ current_line < Len(current_gcode)

\* n hard-stop commands, then the motor-disable and the pen-up command
EStopWrites(n) == [i \in 1..(n + 2) |-> IF i <= n THEN M112 ELSE IF i = n + 1 THEN M18 ELSE PenUpCmd]

\* C22: the raw writes of an emergencyStop() are at every moment a prefix of
\* several hard-stop commands followed by the motor-disable and the pen-up
\* command; both flags are clear from before the first write; a raw write
\* leaves the writer lock as it is; the flush of the buffers comes after the
\* last write and empties the input buffer.
C22_EStopRawSequence ==
    /\ [](\E n \in 2..5 : IsPrefix(hist.raw, EStopWrites(n)))
    /\ []((hist.lastOp = "estop" /\ pc["req"] \in {"sr_write", "es_raw", "es_flush", "h_ret"})
            => (~is_plotting /\ ~is_paused))
    /\ [][(pc["req"] = "sr_write" /\ pc'["req"] # "sr_write") => lock' = lock]_vars
    /\ [][(pc["req"] = "es_flush" /\ pc'["req"] = "h_ret")
            => (inbox' = <<>> /\ \E n \in 2..5 : hist.raw = EStopWrites(n))]_vars

C22_Witness ==
    /\ hist.lastOp = "estop"
    /\ hist.lastRes = "ok"
    /\ hist.wasOpen
    /\ Len(hist.raw) = 7
    /\ lock = "rdr"

\* C23: the paused flag is set only while the plotting flag is set, and a
\* pause() leaves the cursor where it was.
C23_PausedOnlyWhilePlotting ==
    /\ [](is_paused => is_plotting)
    /\ [][Called("pause") => current_line' = current_line]_vars

\* C24: a resume() on a controller that no pause() has paused writes no line
\* of the command list.
C24_ResumeOnlyFromPaused ==
    ~( /\ hist.lastOp = "resume"
       /\ hist.pausePen = "none"
       /\ pc["req"] = "sc_write"
       /\ loc["req"].lidx > 0 )

\* C25: while the controller is plotting or paused (the plotting flag is set
\* in both) no step changes the command list.
C25_ListFixedWhileStreaming ==
    [][is_plotting => current_gcode' = current_gcode]_vars

\* C26: after a connect() made while the reader had nothing left to handle,
\* and until the next request, the reader starts no dispatch: the replies to the commands
\* that connect() sends move no line of the command list.
C26_NoDispatchOnReconnect ==
    [][(~InSnl("rdr") /\ InSnl("rdr")') => ~(hist.lastOp = "connect" /\ hist.quiet)]_vars


\* C27: skipping blank and comment-only lines nests send_next_line at most
\* one level deep, however long the run of such lines is (stated for the
\* dispatches that do not overlap a start() still writing its preamble).
C27_SkipDepthBounded == ~hist.overlap => \A t \in Threads : loc[t].depth <= 1

\* the tokens of the tracked line, as the device reads them
TrackedParts == Split(Upper(current_gcode[1]))

\* the positions, after the first, of the well-formed tokens of axis a
WellFormed(a) ==
    {i \in 2..Len(TrackedParts) :
        /\ Head(TrackedParts[i]) = a
        /\ Tail(TrackedParts[i]) # <<>>
        /\ \A k \in 2..Len(TrackedParts[i]) : TrackedParts[i][k] \in Digits}

\* the value an axis has after the line: that of its last well-formed token
\* on a move command, and otherwise the value it had
AxisAfter(a, before) ==
    IF Head(TrackedParts) \in MoveCmds /\ WellFormed(a) # {}
    THEN FloatVal(Tail(TrackedParts[CHOOSE i \in WellFormed(a) : \A j \in WellFormed(a) : j <= i]))
    ELSE before

\* C28: after a line is tracked, each of x, y, z has the value of the last
\* well-formed token of its axis when the line is a travel/draw move, and is
\* unchanged otherwise: a line that is no move changes nothing, and a
\* malformed token changes neither its own axis nor the effect of the others.
C28_TrackOnlyNamedAxes ==
    hist.stage = "tracked" =>
        /\ gondola_position.x = AxisAfter("X", hist.before.x)
        /\ gondola_position.y = AxisAfter("Y", hist.before.y)
        /\ gondola_position.z = AxisAfter("Z", hist.before.z)

\* a move with a malformed x token before a well-formed y token was tracked
C28_Witness ==
    /\ hist.stage = "tracked"
    /\ current_gcode[1] = TrackLine(<<"G", "1">>, << <<"X", ".">>, <<"Y", "7">> >>)
    /\ hist.before = [x |-> 1, y |-> 2, z |-> 3]
    /\ gondola_position = [x |-> 1, y |-> 7, z |-> 3]

\* the position obtained from the home position by the command-list lines
\* that were written to the device, in the order of the list
WrittenPosition ==
    LET after[i \in 0..Len(current_gcode)] ==
            IF i = 0 THEN Home
            ELSE IF hist.sent[i] > 0
                 THEN update_gondola_position(after[i - 1], current_gcode[i])
                 ELSE after[i - 1]
    IN  after[Len(current_gcode)]

\* C29: when start() was the last request, at most one event came before it
\* or after it, no acknowledgment was handled while start() was writing its
\* preamble, and no thread is inside a dispatch, the tracked position is
\* the home position moved by the command-list lines that were written to the
\* device, and by nothing else.
C29_PositionFromWrittenLines ==
    (/\ hist.lastOp = "start"
     /\ hist.lastRes # "error"
     /\ hist.ops <= 2
     /\ ~hist.overlap
     /\ pc["req"] \notin {"st_paused", "st_line", "st_gondola"}
     /\ \A t \in Threads : ~InSnl(t)) => gondola_position = WrittenPosition

\* the Lines of the current layer of the document
CurrentLines(t) == t.layers[Len(t.layers)].lines

\* the step is the request `op` to the Turtle
TurtleStep(op) == hist'.steps = hist.steps + 1 /\ hist'.op = op

\* the step appends one Line to the current layer, which starts at the
\* cursor it leaves, and changes no other Line and no other layer
StartsLine ==
    /\ Len(current_turtle'.layers) = Len(current_turtle.layers)
    /\ \A i \in 1..(Len(current_turtle.layers) - 1) :
            current_turtle'.layers[i] = current_turtle.layers[i]
    /\ Len(CurrentLines(current_turtle')) = Len(CurrentLines(current_turtle)) + 1
    /\ SubSeq(CurrentLines(current_turtle'), 1, Len(CurrentLines(current_turtle)))
            = CurrentLines(current_turtle)
    /\ CurrentLines(current_turtle')[Len(CurrentLines(current_turtle'))].points
            = <<current_turtle'.position>>

\* C30: a pen-down request with the pen up starts one Line in the current
\* layer, whose only point is the cursor, which does not move; with the pen
\* already down it changes nothing; a jump starts one Line in the current
\* layer at the position jumped to.
C30_PenDownStartsLine ==
    [][/\ (TurtleStep("pen_down") /\ current_turtle.pen_up)
            => (/\ StartsLine
                /\ current_turtle'.position = current_turtle.position
                /\ ~current_turtle'.pen_up)
       /\ (TurtleStep("pen_down") /\ ~current_turtle.pen_up)
            => current_turtle' = current_turtle
       /\ TurtleStep("jump_to")
            => (StartsLine /\ ~current_turtle'.pen_up)]_vars

\* a pen-down request made with the pen up has started a Line away from the
\* origin, in a layer that is not the first
C30_Witness ==
    /\ hist.op = "pen_down"
    /\ hist.pen_was_up
    /\ Len(current_turtle.layers) = 2
    /\ Len(CurrentLines(current_turtle)) = 1
    /\ current_turtle.position = [x |-> 10000, y |-> 0]
    /\ CurrentLines(current_turtle)[1].points = <<current_turtle.position>>

\* C31: a move made with the pen up changes the cursor position and nothing
\* else: no Line gets a point, no Line and no layer is created, and the pen
\* and the stroke stay as they were.
C31_MovePenUpOnlyMovesCursor ==
    [][(TurtleStep("move_to") /\ current_turtle.pen_up)
          => current_turtle' = [current_turtle EXCEPT !.position = current_turtle'.position]]_vars

\* a move with the pen up has taken the cursor away from the end of a Line
\* that an earlier pen-down started
C31_Witness ==
    /\ hist.op = "move_to"
    /\ hist.pen_was_up
    /\ current_turtle.pen_up
    /\ CurrentLines(current_turtle) # <<>>
    /\ CurrentLines(current_turtle)[1].points = << [x |-> 0, y |-> 0] >>
    /\ current_turtle.position = [x |-> 10000, y |-> 0]

\* the document without its Lines of fewer than two points
WithoutDegenerate(t) ==
    [t EXCEPT !.layers =
        [i \in 1..Len(t.layers) |->
            [t.layers[i] EXCEPT !.lines = SelectSeq(@, LAMBDA l : Len(l.points) >= 2)]]]

\* C32: the bounds, the point count, the segment count and the two distances
\* of a document are those of the document without its degenerate Lines.
C32_QueriesIgnoreDegenerate ==
    /\ get_bounds(current_turtle) = get_bounds(WithoutDegenerate(current_turtle))
    /\ count_points(current_turtle) = count_points(WithoutDegenerate(current_turtle))
    /\ count_lines(current_turtle) = count_lines(WithoutDegenerate(current_turtle))
    /\ get_draw_distance(current_turtle) = get_draw_distance(WithoutDegenerate(current_turtle))
    /\ get_travel_distance(current_turtle) = get_travel_distance(WithoutDegenerate(current_turtle))

\* C33: after a command list that is not empty is loaded while nothing is
\* plotting, and no acknowledgment was handled while start() was writing its
\* preamble, the cursor is within 0..total and the reported percent is within
\* 0..100.
C33_CursorAndPercentInRange ==
    (hist.lastOp = "upload" /\ current_gcode # <<>> /\ ~is_plotting /\ ~hist.overlap)
        => (current_line \in 0..Len(current_gcode) /\ Percent \in 0..100)

\* C34: after a resume() that follows a pause(), with no acknowledgment
\* handled while start() was writing its preamble, at most one written line of
\* the command list is without an acknowledgment, even when every
\* acknowledgment the reader has handled is counted for a line of the list.
C34_WindowOfOne ==
    (hist.lastOp = "resume" /\ hist.pausePen # "none" /\ ~hist.overlap) => hist.await <= 1

\* C35: in a stream that start() began, with no other request and no loss of
\* the port, no line of the command list is written twice, and when a line
\* has been written every real command before it has been written once.
C35_InOrderOnce ==
    OnlyStart =>
        \A j \in 1..Len(current_gcode) :
            /\ hist.sent[j] <= 1
            /\ hist.sent[j] > 0 =>
                    \A i \in 1..(j - 1) : ~IsSkippable(current_gcode[i]) => hist.sent[i] = 1

\* C36: once stop() or the emergency stop has returned, and until the next
\* request, no step writes a line of the command list or changes the cursor
\* (stated for the streams in which no acknowledgment was handled while
\* start() was writing its preamble).
C36_NothingAfterStop ==
    [][(/\ hist.lastOp \in {"stop", "estop"}
        /\ pc["req"] = "idle"
        /\ ~hist.overlap
        /\ hist'.ops = hist.ops)
          => (current_line' = current_line /\ hist'.sent = hist.sent)]_vars

\* C37: after start(), pause() and resume(), with no acknowledgment handled
\* while start() was writing its preamble, no thread runs the completion
\* branch of send_next_line once the stream has been completed.
C37_CompletesOnce ==
    [][\A t \in Threads :
          (/\ pc[t] = "snl_done"
           /\ pc'[t] # "snl_done"
           /\ ~hist.overlap
           /\ hist.lastOp = "resume"
           /\ hist.pausePen # "none") => ~hist.completed]_vars

\* C38: a stream that was started is eventually completed, with the plotting
\* flag clear and the cursor at the end of the command list, unless an
\* acknowledgment was handled while start() was writing its preamble.
C38_EventuallyCompleted ==
    is_plotting ~> \/ hist.overlap
                   \/ (hist.completed /\ ~is_plotting /\ current_line = Len(current_gcode))

\* the reader threads that are at work on the open port
ActiveReaders ==
    {i \in 1..Len(pc["rdr"]) : pc["rdr"][i] # "dead" /\ running /\ serial_open}

\* C39: when no request is in progress, at most one reader thread is at work
\* on the open port.
C39_OneReader == pc["req"] = "idle" => Cardinality(ActiveReaders) <= 1

\* C40: while a path is built, every Line holds at least one point and has
\* the color and diameter of its layer, and whenever the pen is down the
\* current layer has a Line and the last point of its last Line is the
\* cursor position.
C40_BuildingInvariant ==
    /\ \A i \in 1..Len(current_turtle.layers) :
          \A j \in 1..Len(current_turtle.layers[i].lines) :
              LET layer == current_turtle.layers[i]
                  line == layer.lines[j]
              IN  /\ Len(line.points) >= 1
                  /\ line.color = layer.color
                  /\ line.diameter = layer.diameter
    /\ ~current_turtle.pen_up =>
          LET lines == CurrentLines(current_turtle)
          IN  /\ lines # <<>>
              /\ lines[Len(lines)].points[Len(lines[Len(lines)].points)]
                     = current_turtle.position

\* the stroke was changed with the pen down and a move was drawn after it
C40_Witness ==
    /\ hist.op = "move_to"
    /\ ~current_turtle.pen_up
    /\ Len(current_turtle.layers) >= 2
    /\ Len(CurrentLines(current_turtle)) = 1
    /\ Len(CurrentLines(current_turtle)[1].points) = 2
    /\ current_turtle.layers[1].lines # <<>>

====
